---- MODULE Spec2Model ----
(***************************************************************************)
(* Delegated-signer orchestrator of the Crossmint wallet plugin (api.ts):  *)
(* createTransfer, purchaseProduct, the two poll loops waitForTransaction  *)
(* and waitForTransactionBroadcast, and the single-request reads.  One     *)
(* behaviour is one invocation of one exported function against a remote   *)
(* service whose responses are chosen nondeterministically.  An action is  *)
(* the code from one await to the next: the request, the response and the  *)
(* synchronous code that handles it.                                       *)
(***************************************************************************)
EXTENDS Integers, Sequences, FiniteSets, TLC

VARIABLES
    op,             \* the exported function this behaviour invokes
    pc,             \* position inside it
    config,         \* CrossmintApiConfig
    keypair,        \* the local signer's Keypair
    walletAddress,  \* walletAddress / request.payment.payerAddress
    args,           \* the other arguments: recipient, token, amount, orderId
    transactionId,  \* transactionId argument, or the id of the created transaction
    timeoutMs,      \* the active poll loop's timeoutMs
    pollIntervalMs, \* the active poll loop's pollIntervalMs
    now,            \* Date.now()
    startTime,      \* the active poll loop's startTime
    calls,          \* every request handed to fetch, in order, with the response's ok
    signs,          \* every message handed to nacl.sign.detached, in order
    order,          \* purchaseProduct: order of the create-order response
    clientSecret,   \* purchaseProduct: clientSecret of the create-order response
    txData,         \* the create-transfer / create-transaction response body
    signature,      \* signatureBase58
    approvedData,   \* createTransfer: the submit-approval response body
    onChainTxId,    \* purchaseProduct: what waitForTransactionBroadcast returned
    lastStatus,     \* waitForTransaction: tx.status of the latest loop iteration
    fetched,        \* tx / txStatus of the loop iteration; of it the status alone
                    \* once the wait has returned into the purchase
    lateFetches,    \* status requests issued when the loop's deadline had passed
    lastLate,       \* by how much the latest setTimeout fired after its delay
    outcome,        \* "running", "returned" or "threw"
    result,         \* the returned value
    error,          \* the thrown Error
    wallets,        \* keystore: the wallet record of each agent id
    nextKey,        \* keypairs generated so far
    toolClock,      \* tool and keystore calls made so far; the clock of createdAt
    toolCall,       \* the latest tool or keystore call and its parameters
    toolDone,       \* how that call ended
    writers,        \* keystore writers: the mutation each one is in, and its snapshot
    lock,           \* the writer that holds the keystore's write lock
    runs,           \* concurrent invocations: the locals of each one
    wire,           \* the requests of each invocation, in order, with their answers
    issued          \* orders and transactions the remote service has created

apiVars == <<op, pc, config, keypair, walletAddress, args, transactionId, timeoutMs,
             pollIntervalMs, now, startTime, calls, signs, order, clientSecret,
             txData, signature, approvedData, onChainTxId, lastStatus, fetched,
             lateFetches, lastLate, outcome, result, error>>

toolVars == <<wallets, nextKey, toolClock, toolCall, toolDone>>

lockVars == <<writers, lock>>

concVars == <<runs, wire, issued>>

vars == <<apiVars, toolVars, lockVars, concVars>>

----------------------------------------------------------------------------
(* Bounds of the model *)

MaxPending == 2     \* approvals.pending holds at most this many entries
MaxTimeout == 3     \* a caller's timeoutMs ranges over 0..MaxTimeout
MaxInterval == 2    \* a caller's pollIntervalMs ranges over 1..MaxInterval
MaxLate == 2        \* setTimeout fires up to this much after the interval
MaxRequests == 20   \* requests one invocation may issue when termination is checked
MaxCalls == 5       \* tool and keystore calls in one behaviour
MaxWriters == 2     \* concurrent writers of the keystore
MaxInvocations == 2 \* concurrent invocations of purchaseProduct / createTransfer
MaxPolls == 2       \* status requests of one broadcast wait before its deadline

(* Program constants *)

BroadcastTimeoutMs == 30000
DefaultPollIntervalMs == 2000

----------------------------------------------------------------------------
(* Values *)

Null == "<null>"
Unset == "<unset>"

\* JavaScript truthiness of an optional string: undefined, null and "" are falsy.
Truthy(x) == x \notin {"", Null, Unset}

\* The exported functions, and "recoverPurchase": a caller that holds the
\* order id and the transaction id of a purchase whose approval was submitted
\* calls waitForTransactionBroadcast and then, with the reference it returned,
\* submitPaymentConfirmation, each on its own.
Operations ==
    {"purchaseProduct", "createTransfer", "waitForTransaction",
     "waitForTransactionBroadcast", "getTransactionStatus",
     "getWalletBalance", "getOrder", "recoverPurchase"}

\* The operations that start in a poll loop.
LoopOperations == {"waitForTransaction", "waitForTransactionBroadcast", "recoverPurchase"}

Keypairs ==
    {[publicKey |-> "PK1", secretKey |-> "SK1"],
     [publicKey |-> "PK2", secretKey |-> "SK2"]}

NoKeypair == [publicKey |-> "", secretKey |-> ""]
SecretKeys == {k.secretKey : k \in Keypairs}
ApiKeys == {"apikey1"}
WalletAddresses == {"W1"}
TxIds == {"t1", "t2"}
OrderIds == {"o1"}
ClientSecrets == {"cs1"}
ErrorBodies == {"bad-request", "server-error"}
Messages == {"MSG1"}

TxStatuses ==
    {"pending", "awaiting-approval", "success", "completed",
     "failed", "rejected", "cancelled"}
TerminalStatuses == {"success", "completed", "failed", "rejected", "cancelled"}

NoSignature == [signedBy |-> "", over |-> "", enc |-> ""]
NoTx == [id |-> "", status |-> "", hash |-> "", txId |-> "",
         explorerLink |-> <<>>, onChain |-> [txId |-> ""]]
NoOrder == [orderId |-> "", phase |-> "", payment |-> [status |-> "",
            serializedTransaction |-> "", failureCode |-> "", failureMessage |-> ""]]
NoTxData == [id |-> "", status |-> "", hash |-> "", explorerLink |-> <<>>,
             pending |-> <<>>]
NoApproved == [id |-> "", status |-> "", hash |-> "", explorerLink |-> <<>>]
NoError == [message |-> "", body |-> "", tx |-> NoTx]

\* A request as fetchCrossmint hands it to fetch: endpoint, X-API-KEY header,
\* the identifiers of the URL path, the Authorization header and the JSON body.
NoRequest ==
    [ep |-> "", apiKey |-> "", wallet |-> "", token |-> <<>>, txId |-> "",
     orderId |-> "", authorization |-> "", recipient |-> "", amount |-> "",
     signer |-> <<>>, transaction |-> "", signature |-> NoSignature,
     paymentTxId |-> "", ok |-> TRUE]

----------------------------------------------------------------------------
(* Local signing: bs58.decode, nacl.sign.detached, bs58.encode *)

\* The bytes a base-58 text stands for.
Bs58Decode(text) == [b58 |-> text]

PublicKeyOf(secretKey) == (CHOOSE k \in Keypairs : k.secretKey = secretKey).publicKey

\* A detached ed25519 signature: it verifies against the public key of the
\* secret key that made it, over the bytes signed, and holds neither key.
SignDetached(messageBytes, secretKey) ==
    [signedBy |-> PublicKeyOf(secretKey), over |-> messageBytes.b58, enc |-> "raw"]

Bs58Encode(sig) == [sig EXCEPT !.enc = "base58"]

PublicAddressLeaksSecret(kp) == kp.secretKey
\* keypair.publicKey.toBase58()
PublicAddress(kp) == kp.publicKey

SignerLocatorWithoutPrefix(address) == <<address>>
\* `external-wallet:${address}`
SignerLocator(address) == <<"external-wallet", address>>

Tokens == {"sol", "SOL", "usdc"}
ToLowerCase(token) == IF token = "SOL" THEN "sol" ELSE token
\* token.toLowerCase() === "sol" ? "solana:sol" : `solana:${token}`
TokenLocator(token) ==
    IF ToLowerCase(token) = "sol" THEN <<"solana", "sol">> ELSE <<"solana", token>>

\* `https://explorer.solana.com/tx/${txId}?cluster=devnet`
ExplorerLink(txId) == <<"https://explorer.solana.com/tx/", txId, "?cluster=devnet">>

----------------------------------------------------------------------------
(* What the remote service may answer *)

\* Body of a get-transaction-status response for transaction id.
StatusBodies(id) ==
    [id : {id}, status : TxStatuses, hash : {"", "hashC"}, txId : {"", "chainB"},
     onChain : [txId : {"", "chainA"}]]

PendingEntries == [signer : {<<"external-wallet", "PK1">>}, message : {""} \cup Messages]
PendingLists == UNION {[1..n -> PendingEntries] : n \in 0..MaxPending}

\* Body of a create-transfer response.
TxDataBodies ==
    [id : TxIds, status : {"awaiting-approval", "pending", "success"},
     hash : {""}, explorerLink : {<<>>}, pending : PendingLists]

\* Body of a create-wallet-transaction response.
TransactionBodies ==
    [id : TxIds, status : {"awaiting-approval"},
     hash : {""}, explorerLink : {<<>>}, pending : PendingLists]

\* Body of a submit-approval response.
ApprovedBodies ==
    [id : {"", "t1"}, status : {"", "pending", "awaiting-approval", "success"},
     hash : {"", "hashC"}, explorerLink : {<<>>, <<"https://remote/tx">>}]

\* order of a create-order response: the payment either is prepared, with a
\* serialized transaction, or is not, with or without a failure reason.
OrderBodies ==
    [orderId : OrderIds, phase : {"payment"},
     payment : [status : {"", "awaiting-payment"},
                serializedTransaction : {"abc"},
                failureCode : {""},
                failureMessage : {""}]]
    \cup
    [orderId : OrderIds, phase : {"quote", "payment"},
     payment : [status : {"", "requires-quote"},
                serializedTransaction : {""},
                failureCode : {"", "insufficient-funds", "other"},
                failureMessage : {"low"}]]

\* Body of a submit-payment-confirmation or get-order response.
ConfirmedOrders(id) ==
    [orderId : {id}, phase : {"payment", "completed"},
     payment : [status : {"completed"}, serializedTransaction : {""},
                failureCode : {""}, failureMessage : {""}]]

----------------------------------------------------------------------------
(* Keystore (wallet.js): one mapping from agent id to wallet record *)

AgentIds == {"main", "agent-2"}

\* A wallet record; NoWallet is the absent record, what getWallet gives as null.
NoWallet ==
    [address |-> <<>>, secretKey |-> <<>>, createdAt |-> 0,
     smartWalletAddress |-> "", apiKey |-> "", configuredAt |-> 0]

\* Keypair.generate(): the n-th keypair generated, unlike every other one.
GenerateKeypair(n) == [publicKey |-> <<"address", n>>, secretKey |-> <<"secret", n>>]

EmptyStore == [a \in AgentIds |-> NoWallet]

\* getWallet(agentId): the record, or null
getWallet(store, agentId) == store[agentId]

WalletExists(store, agentId) == getWallet(store, agentId) # NoWallet

getOrCreateWalletAlwaysNew(store, agentId, n, time) ==
    LET kp == GenerateKeypair(n + 1)
        w == [NoWallet EXCEPT !.address = kp.publicKey,
                              !.secretKey = kp.secretKey,
                              !.createdAt = time]
    IN [store |-> [store EXCEPT ![agentId] = w], wallet |-> w, generated |-> 1]
\* getOrCreateWallet(agentId): the stored record when there is one, otherwise
\* a record with a new keypair, stored.
getOrCreateWallet(store, agentId, n, time) ==
    IF WalletExists(store, agentId)
    THEN [store |-> store, wallet |-> store[agentId], generated |-> 0]
    ELSE LET kp == GenerateKeypair(n + 1)
             w == [NoWallet EXCEPT !.address = kp.publicKey,
                                   !.secretKey = kp.secretKey,
                                   !.createdAt = time]
         IN [store |-> [store EXCEPT ![agentId] = w], wallet |-> w, generated |-> 1]

\* configureWallet(agentId, smartWalletAddress, apiKey): throws when the agent
\* has no wallet, otherwise attaches the two values to the stored record.
configureWallet(store, agentId, address, apiKey, time) ==
    IF ~WalletExists(store, agentId)
    THEN [threw |-> TRUE, message |-> "No wallet found for agent",
          store |-> store, wallet |-> NoWallet]
    ELSE LET w == [store[agentId] EXCEPT !.smartWalletAddress = address,
                                         !.apiKey = apiKey,
                                         !.configuredAt = time]
         IN [threw |-> FALSE, message |-> "",
             store |-> [store EXCEPT ![agentId] = w], wallet |-> w]

\* isWalletConfigured(agentId)
isWalletConfigured(store, agentId) ==
    /\ WalletExists(store, agentId)
    /\ Truthy(store[agentId].smartWalletAddress)
    /\ Truthy(store[agentId].apiKey)

\* getKeypair(agentId): the Keypair of the stored secret key, or null
getKeypair(store, agentId) ==
    IF WalletExists(store, agentId)
    THEN [publicKey |-> store[agentId].address, secretKey |-> store[agentId].secretKey]
    ELSE [publicKey |-> <<>>, secretKey |-> <<>>]

\* The messages callers hand to signMessage.
SignedMessages == {"test message", "test message for verification"}

\* nacl.sign.detached.verify(message, signature, publicKey)
Verify(message, sig, publicKey) == sig.signedBy = publicKey /\ sig.over = message

\* The public key of a secret key the keystore generated.
KeystorePublicKeyOf(secretKey) == <<"address", secretKey[2]>>

signMessageOfNothing(store, agentId, message) ==
    IF ~WalletExists(store, agentId)
    THEN [threw |-> TRUE, message |-> "No wallet found for agent",
          signature |-> NoSignature]
    ELSE [threw |-> FALSE, message |-> "",
          signature |-> [signedBy |-> KeystorePublicKeyOf(getKeypair(store, agentId).secretKey),
                         over |-> "", enc |-> "raw"]]
\* signMessage(agentId, message): throws when the agent has no wallet,
\* otherwise the detached ed25519 signature of message by the stored key.
signMessage(store, agentId, message) ==
    IF ~WalletExists(store, agentId)
    THEN [threw |-> TRUE, message |-> "No wallet found for agent",
          signature |-> NoSignature]
    ELSE [threw |-> FALSE, message |-> "",
          signature |-> [signedBy |-> KeystorePublicKeyOf(getKeypair(store, agentId).secretKey),
                         over |-> message, enc |-> "raw"]]

\* deleteWallet(agentId): removes the record; false when there was none
deleteWallet(store, agentId) ==
    [store |-> [store EXCEPT ![agentId] = NoWallet],
     deleted |-> WalletExists(store, agentId)]

\* A tool or keystore call, and how a call ends.
NoCall ==
    [tool |-> "", agentId |-> "", walletAddress |-> "", apiKey |-> "", to |-> "",
     amount |-> "", wait |-> FALSE, transactionId |-> "", orderId |-> "",
     fields |-> "", message |-> "", timeoutMs |-> <<>>]

NotDone ==
    [outcome |-> "none", text |-> "", api |-> <<>>, wallet |-> NoWallet,
     signature |-> NoSignature, transaction |-> ""]

Writers == 1..MaxWriters
NoWriter == 0

\* A writer that is in no keystore call.
IdleWriter ==
    [pc |-> "idle", kind |-> "", agentId |-> "", snapshot |-> EmptyStore,
     waited |-> FALSE, commits |-> 0]

\* Before the first tool call: an empty keystore, nobody writing.
ToolsIdle ==
    /\ wallets = EmptyStore
    /\ nextKey = 0
    /\ toolClock = 0
    /\ toolCall = NoCall
    /\ toolDone = NotDone
    /\ writers = [w \in Writers |-> IdleWriter]
    /\ lock = NoWriter

\* No invocation of purchaseProduct or createTransfer runs beside another.
NoInvocations ==
    /\ runs = <<>>
    /\ wire = <<>>
    /\ issued = 0

----------------------------------------------------------------------------
(* Initial state: the arguments of one invocation *)

Init ==
    /\ op \in Operations
    /\ pc = IF op \in LoopOperations THEN "loop" ELSE "start"
    /\ config \in [apiKey : ApiKeys, environment : {"staging"}]
    /\ keypair \in IF op \in {"purchaseProduct", "createTransfer"}
                    THEN Keypairs ELSE {NoKeypair}
    /\ walletAddress \in WalletAddresses
    /\ args \in
         CASE op = "createTransfer" ->
                [recipient : {"", "R1"}, token : Tokens, amount : {"", "5"},
                 orderId : {""}]
           [] op \in {"getOrder", "recoverPurchase"} ->
                [recipient : {""}, token : {""}, amount : {""}, orderId : OrderIds]
           [] OTHER ->
                [recipient : {""}, token : {""}, amount : {""}, orderId : {""}]
    /\ transactionId \in
         IF op \in LoopOperations \cup {"getTransactionStatus"}
         THEN TxIds ELSE {Unset}
    /\ timeoutMs \in IF op \in LoopOperations THEN 0..MaxTimeout ELSE {0}
    /\ pollIntervalMs \in
         IF op \in LoopOperations THEN 1..MaxInterval ELSE {DefaultPollIntervalMs}
    /\ now = 0
    /\ startTime = 0
    /\ calls = <<>>
    /\ signs = <<>>
    /\ order = NoOrder
    /\ clientSecret \in IF op = "recoverPurchase"
                        THEN ClientSecrets \cup {Unset} ELSE {Unset}
    /\ txData = NoTxData
    /\ signature = NoSignature
    /\ approvedData = NoApproved
    /\ onChainTxId = Unset
    /\ lastStatus = Unset
    /\ fetched = NoTx
    /\ lateFetches = 0
    /\ lastLate = 0
    /\ outcome = "running"
    /\ result = Unset
    /\ error = NoError
    /\ ToolsIdle
    /\ NoInvocations

\* The request record of one fetchCrossmint call: X-API-KEY comes from config.
Request(ep, ok) == [NoRequest EXCEPT !.ep = ep, !.apiKey = config.apiKey, !.ok = ok]

\* return value
Return(value) ==
    /\ outcome' = "returned"
    /\ result' = value
    /\ pc' = "done"
    /\ error' = error

\* throw new Error(`${message}: ${body}`)
Throw(message, body, tx) ==
    /\ outcome' = "threw"
    /\ error' = [message |-> message, body |-> body, tx |-> tx]
    /\ pc' = "done"
    /\ result' = result

----------------------------------------------------------------------------
(* RemoteClient: one function per endpoint.  Each takes the HTTP response  *)
(* and gives the function's completion: a thrown Error or a returned value *)

Responses(bodies) ==
    [ok : {TRUE}, text : {""}, json : bodies]
        \cup [ok : {FALSE}, text : ErrorBodies, json : {CHOOSE b \in bodies : TRUE}]

Thrown(message, body) == [threw |-> TRUE, message |-> message, body |-> body]
Returned(value) == [threw |-> FALSE, value |-> value]

createOrder(resp) ==
    IF ~resp.ok THEN Thrown("Failed to create order", resp.text)
    ELSE Returned(resp.json)

createTransactionIgnoresStatus(resp) == Returned(resp.json)
createTransaction(resp) ==
    IF ~resp.ok THEN Thrown("Failed to create transaction", resp.text)
    ELSE Returned(resp.json)

submitApprovalIgnoresStatus(resp) == Returned(resp.json)
submitApproval(resp) ==
    IF ~resp.ok THEN Thrown("Failed to submit approval", resp.text)
    ELSE Returned(resp.json)

submitPaymentConfirmationIgnoresStatus(resp) == Returned(resp.json)
submitPaymentConfirmation(resp) ==
    IF ~resp.ok THEN Thrown("Failed to submit payment confirmation", resp.text)
    ELSE Returned(resp.json)

getOrder(resp) ==
    IF ~resp.ok THEN Thrown("Failed to get order", resp.text)
    ELSE Returned(resp.json)

getWalletBalance(resp) ==
    IF ~resp.ok THEN Thrown("Failed to get balance", resp.text)
    ELSE Returned(resp.json)

\* The CrossmintTransaction built from the response body.
getTransactionStatus(resp) ==
    IF ~resp.ok THEN Thrown("Failed to get transaction status", resp.text)
    ELSE LET data == resp.json IN
         Returned([id |-> data.id,
                   status |-> data.status,
                   hash |-> IF Truthy(data.onChain.txId) THEN data.onChain.txId
                            ELSE data.hash,
                   txId |-> data.txId,
                   explorerLink |-> IF Truthy(data.onChain.txId)
                                    THEN ExplorerLink(data.onChain.txId) ELSE <<>>,
                   onChain |-> data.onChain])

\* The get-transaction-status request of a poll or a single read.
StatusRequest(ok) ==
    [Request("get-transaction-status", ok) EXCEPT
        !.wallet = walletAddress, !.txId = transactionId]

----------------------------------------------------------------------------
(* Poll loops *)

LoopConditionInclusive(elapsed, timeout) == elapsed <= timeout
\* while (Date.now() - startTime < timeoutMs)
LoopCondition(elapsed, timeout) == elapsed < timeout

AfterSleepClockStopped(time, interval, late) == time
\* Date.now() once setTimeout(resolve, pollIntervalMs) has resolved, late by
\* `late`.
AfterSleep(time, interval, late) == time + interval + late

\* The deadline has passed once more than timeoutMs has elapsed.
DeadlinePassed == now - startTime > timeoutMs

IsTerminal(status) == status \in TerminalStatuses

WaitStepOnSuccessOnly(tx) ==
    IF tx.status = "success" \/ tx.status = "completed" THEN "return" ELSE "sleep"
\* waitForTransaction's loop body: return the transaction or sleep.
WaitStep(tx) ==
    IF tx.status = "success" \/ tx.status = "completed" THEN "return"
    ELSE IF tx.status = "failed" \/ tx.status = "rejected" \/ tx.status = "cancelled"
         THEN "return"
    ELSE "sleep"

\* const txId = txStatus.onChain?.txId || txStatus.txId || txStatus.hash
FallbackTxId(txStatus) ==
    IF Truthy(txStatus.onChain.txId) THEN txStatus.onChain.txId
    ELSE IF Truthy(txStatus.txId) THEN txStatus.txId
    ELSE txStatus.hash

BroadcastStepTopLevelFirst(txStatus) ==
    IF Truthy(txStatus.txId)
        THEN [kind |-> "return", txId |-> txStatus.txId]
    ELSE IF Truthy(txStatus.onChain.txId)
        THEN [kind |-> "return", txId |-> txStatus.onChain.txId]
    ELSE IF (txStatus.status = "success" \/ txStatus.status = "completed")
            /\ Truthy(FallbackTxId(txStatus))
        THEN [kind |-> "return", txId |-> FallbackTxId(txStatus)]
    ELSE IF txStatus.status = "failed"
        THEN [kind |-> "throw", txId |-> ""]
    ELSE [kind |-> "sleep", txId |-> ""]
\* waitForTransactionBroadcast's loop body: the reference to return, a throw
\* on status failed, or sleep.
BroadcastStep(txStatus) ==
    IF Truthy(txStatus.onChain.txId)
        THEN [kind |-> "return", txId |-> txStatus.onChain.txId]
    ELSE IF Truthy(txStatus.txId)
        THEN [kind |-> "return", txId |-> txStatus.txId]
    ELSE IF (txStatus.status = "success" \/ txStatus.status = "completed")
            /\ Truthy(FallbackTxId(txStatus))
        THEN [kind |-> "return", txId |-> FallbackTxId(txStatus)]
    ELSE IF txStatus.status = "failed"
        THEN [kind |-> "throw", txId |-> ""]
    ELSE [kind |-> "sleep", txId |-> ""]

----------------------------------------------------------------------------
(* Frames *)

\* What no step of an api.ts function changes: its arguments, and the
\* keystore and tool layer above it.
inputs == <<op, config, keypair, walletAddress, args, toolVars, lockVars, concVars>>
loopVars == <<timeoutMs, pollIntervalMs, now, startTime, lastStatus, fetched,
              lateFetches, lastLate>>
purchaseVars == <<order, clientSecret, txData, signature, approvedData, onChainTxId>>

\* One call of nacl.sign.detached(bs58.decode(message), keypair.secretKey).
Sign(message) ==
    /\ signs' = Append(signs, [message |-> message, secretKey |-> keypair.secretKey])
    /\ signature' = Bs58Encode(SignDetached(Bs58Decode(message), keypair.secretKey))

----------------------------------------------------------------------------
(* purchaseProduct *)

OrderCheckWithoutFunds(o) ==
    IF Truthy(o.payment.serializedTransaction) THEN "createTransaction"
    ELSE "no-transaction"
\* What purchaseProduct does with the created order.
OrderCheck(o) ==
    IF Truthy(o.payment.serializedTransaction) THEN "createTransaction"
    ELSE IF o.payment.failureCode = "insufficient-funds" THEN "insufficient-funds"
    ELSE "no-transaction"

PaymentStatusTextWithoutDefault(o) == o.payment.status
\* order.payment?.status || "unknown"
PaymentStatusText(o) == IF Truthy(o.payment.status) THEN o.payment.status ELSE "unknown"

MessageToSignLast(txResponse) ==
    IF Len(txResponse.pending) >= 1
    THEN txResponse.pending[Len(txResponse.pending)].message ELSE ""
\* txResponse.approvals?.pending?.[0]?.message
MessageToSign(txResponse) ==
    IF Len(txResponse.pending) >= 1 THEN txResponse.pending[1].message ELSE ""

BroadcastCheckMissing(txId) == "confirm"
\* if (!onChainTxId) throw ...
BroadcastCheck(txId) == IF ~Truthy(txId) THEN "throw" ELSE "confirm"

\* Step 5, after waitForTransactionBroadcast has returned txId.
PurchaseAfterBroadcast(txId) ==
    /\ onChainTxId' = txId
    /\ IF BroadcastCheck(txId) = "throw"
       THEN Throw("Timeout waiting for transaction to be broadcast on-chain", "", NoTx)
       ELSE /\ pc' = "confirm"
            /\ UNCHANGED <<outcome, result, error>>

\* Step 1: create the order and look for the serialized transaction.
PurchaseCreateOrder ==
    /\ op = "purchaseProduct"
    /\ pc = "start"
    /\ \E resp \in Responses([order : OrderBodies, clientSecret : ClientSecrets]) :
         LET r == createOrder(resp) IN
         /\ calls' = Append(calls, [Request("create-order", resp.ok) EXCEPT
                                        !.wallet = walletAddress])
         /\ IF r.threw
            THEN /\ Throw(r.message, r.body, NoTx)
                 /\ UNCHANGED <<order, clientSecret>>
            ELSE /\ order' = r.value.order
                 /\ clientSecret' = r.value.clientSecret
                 /\ LET next == OrderCheck(r.value.order) IN
                    CASE next = "createTransaction" ->
                           /\ pc' = "createTransaction"
                           /\ UNCHANGED <<outcome, result, error>>
                      [] next = "insufficient-funds" ->
                           Throw("Insufficient funds",
                                 r.value.order.payment.failureMessage, NoTx)
                      [] OTHER ->
                           Throw("Order created but no serialized transaction returned. Payment status",
                                 PaymentStatusText(r.value.order), NoTx)
    /\ UNCHANGED <<inputs, transactionId, loopVars, signs, txData, signature,
                   approvedData, onChainTxId>>

\* Steps 2a and 2b: create the wallet transaction, then sign its first
\* pending message.
PurchaseCreateTransaction ==
    /\ op = "purchaseProduct"
    /\ pc = "createTransaction"
    /\ \E resp \in Responses(TransactionBodies) :
         LET r == createTransaction(resp) IN
         /\ calls' = Append(calls, [Request("create-wallet-transaction", resp.ok) EXCEPT
                                        !.wallet = walletAddress,
                                        !.transaction = order.payment.serializedTransaction,
                                        !.signer = SignerLocator(PublicAddress(keypair))])
         /\ IF r.threw
            THEN /\ Throw(r.message, r.body, NoTx)
                 /\ UNCHANGED <<txData, signs, signature>>
            ELSE /\ txData' = r.value
                 /\ IF ~Truthy(MessageToSign(r.value))
                    THEN /\ Throw("Transaction created but no message to sign", "", NoTx)
                         /\ UNCHANGED <<signs, signature>>
                    ELSE /\ Sign(MessageToSign(r.value))
                         /\ pc' = "submitApproval"
                         /\ UNCHANGED <<outcome, result, error>>
    /\ UNCHANGED <<inputs, transactionId, loopVars, order, clientSecret, approvedData,
                   onChainTxId>>

\* Step 2c: submit the approval, then enter waitForTransactionBroadcast with
\* the 30 second timeout.
PurchaseSubmitApproval ==
    /\ op = "purchaseProduct"
    /\ pc = "submitApproval"
    /\ \E resp \in Responses(ApprovedBodies) :
         LET r == submitApproval(resp) IN
         /\ calls' = Append(calls, [Request("submit-approval", resp.ok) EXCEPT
                                        !.wallet = walletAddress,
                                        !.txId = txData.id,
                                        !.signer = SignerLocator(PublicAddress(keypair)),
                                        !.signature = signature])
         /\ IF r.threw
            THEN /\ Throw(r.message, r.body, NoTx)
                 /\ UNCHANGED <<transactionId, timeoutMs, pollIntervalMs, startTime>>
            ELSE /\ transactionId' = txData.id
                 /\ timeoutMs' = BroadcastTimeoutMs
                 /\ pollIntervalMs' = DefaultPollIntervalMs
                 /\ startTime' = now
                 /\ pc' = "loop"
                 /\ UNCHANGED <<outcome, result, error>>
    /\ UNCHANGED <<inputs, now, lastStatus, fetched, lateFetches, lastLate, signs,
                   purchaseVars>>

\* if (clientSecret) headers["Authorization"] = clientSecret
AuthorizationHeader(secret) == IF Truthy(secret) THEN secret ELSE ""

ConfirmationRequestWithWalletTransaction(orderId, txId, secret, ok) ==
    [Request("submit-payment-confirmation", ok) EXCEPT
        !.orderId = orderId,
        !.authorization = AuthorizationHeader(secret),
        !.paymentTxId = transactionId]
ConfirmationRequestOfTransaction(orderId, txId, secret, ok) ==
    [Request("submit-payment-confirmation", ok) EXCEPT
        !.orderId = txId,
        !.authorization = AuthorizationHeader(secret),
        !.paymentTxId = txId]
\* The request of submitPaymentConfirmation(config, orderId, onChainTxId,
\* clientSecret): POST /orders/${orderId}/payment with txId: onChainTxId.
ConfirmationRequest(orderId, txId, secret, ok) ==
    [Request("submit-payment-confirmation", ok) EXCEPT
        !.orderId = orderId,
        !.authorization = AuthorizationHeader(secret),
        !.paymentTxId = txId]

PurchaseResultOfCreatedOrder(updatedOrder, created, txResponse, reference) ==
    [order |-> created,
     transactionId |-> txResponse.id,
     onChainTxId |-> reference,
     explorerLink |-> ExplorerLink(reference)]
\* return { order: updatedOrder, transactionId: txResponse.id, onChainTxId,
\* explorerLink }
PurchaseResult(updatedOrder, created, txResponse, reference) ==
    [order |-> updatedOrder,
     transactionId |-> txResponse.id,
     onChainTxId |-> reference,
     explorerLink |-> ExplorerLink(reference)]

\* Step 6: submit the on-chain reference to the order's payment endpoint and
\* return the PurchaseResult.
PurchaseConfirm ==
    /\ op = "purchaseProduct"
    /\ pc = "confirm"
    /\ \E resp \in Responses(ConfirmedOrders(order.orderId)) :
         LET r == submitPaymentConfirmation(resp) IN
         /\ calls' = Append(calls, ConfirmationRequest(order.orderId, onChainTxId,
                                                       clientSecret, resp.ok))
         /\ IF r.threw
            THEN Throw(r.message, r.body, NoTx)
            ELSE Return(PurchaseResult(r.value, order, txData, onChainTxId))
    /\ UNCHANGED <<inputs, transactionId, loopVars, signs, purchaseVars>>

\* submitPaymentConfirmation called on its own by the recovering caller, with
\* the order id it holds and the reference waitForTransactionBroadcast returned.
RecoverConfirm ==
    /\ op = "recoverPurchase"
    /\ pc = "confirm"
    /\ \E resp \in Responses(ConfirmedOrders(args.orderId)) :
         LET r == submitPaymentConfirmation(resp) IN
         /\ calls' = Append(calls, ConfirmationRequest(args.orderId, onChainTxId,
                                                       clientSecret, resp.ok))
         /\ IF r.threw
            THEN Throw(r.message, r.body, NoTx)
            ELSE Return(r.value)
    /\ UNCHANGED <<inputs, transactionId, loopVars, signs, purchaseVars>>

----------------------------------------------------------------------------
(* waitForTransactionBroadcast, called by purchaseProduct or on its own *)

BroadcastCallers == {"purchaseProduct", "waitForTransactionBroadcast", "recoverPurchase"}

\* One iteration of the loop: the loop condition, the status request and the
\* inspection of the response.
BroadcastPoll ==
    /\ op \in BroadcastCallers
    /\ pc = "loop"
    /\ LoopCondition(now - startTime, timeoutMs)
    /\ \E resp \in Responses(StatusBodies(transactionId)) :
         LET r == getTransactionStatus(resp) IN
         /\ calls' = Append(calls, StatusRequest(resp.ok))
         /\ lateFetches' = lateFetches + (IF DeadlinePassed THEN 1 ELSE 0)
         /\ IF r.threw
            THEN /\ Throw(r.message, r.body, NoTx)
                 /\ UNCHANGED <<onChainTxId, fetched>>
            ELSE /\ fetched' = IF BroadcastStep(r.value).kind = "return"
                                   /\ op # "waitForTransactionBroadcast"
                                THEN [NoTx EXCEPT !.status = r.value.status]
                                ELSE r.value
                 /\ LET step == BroadcastStep(r.value) IN
                    CASE step.kind = "return" /\ op = "purchaseProduct" ->
                           PurchaseAfterBroadcast(step.txId)
                      [] step.kind = "return" /\ op = "recoverPurchase" ->
                           /\ onChainTxId' = step.txId
                           /\ pc' = "confirm"
                           /\ UNCHANGED <<outcome, result, error>>
                      [] step.kind = "return" /\ op = "waitForTransactionBroadcast" ->
                           /\ Return(step.txId)
                           /\ UNCHANGED onChainTxId
                      [] step.kind = "throw" ->
                           /\ Throw("Transaction failed", "", r.value)
                           /\ UNCHANGED onChainTxId
                      [] OTHER ->
                           /\ pc' = "sleep"
                           /\ UNCHANGED <<outcome, result, error, onChainTxId>>
    /\ UNCHANGED <<inputs, transactionId, timeoutMs, pollIntervalMs, now, startTime,
                   lastStatus, lastLate, signs, order, clientSecret, txData, signature,
                   approvedData>>

\* await new Promise((resolve) => setTimeout(resolve, pollIntervalMs))
BroadcastSleep ==
    /\ op \in BroadcastCallers
    /\ pc = "sleep"
    /\ \E late \in {0, MaxLate} :
         /\ now' = AfterSleep(now, pollIntervalMs, late)
         /\ lastLate' = late
    /\ fetched' = NoTx
    /\ pc' = "loop"
    /\ UNCHANGED <<inputs, transactionId, timeoutMs, pollIntervalMs, startTime,
                   lastStatus, lateFetches, calls, signs, purchaseVars, outcome, result, error>>

\* The loop condition fails: return null.  purchaseProduct then throws.
BroadcastTimeout ==
    /\ op \in BroadcastCallers
    /\ pc = "loop"
    /\ ~LoopCondition(now - startTime, timeoutMs)
    /\ IF op = "purchaseProduct"
       THEN PurchaseAfterBroadcast(Null)
       ELSE /\ Return(Null)
            /\ UNCHANGED onChainTxId
    /\ UNCHANGED <<inputs, transactionId, loopVars, calls, signs, order, clientSecret,
                   txData, signature, approvedData>>

----------------------------------------------------------------------------
(* waitForTransaction *)

\* One iteration of the loop: the loop condition, the status request and the
\* terminal-state test.
WaitPoll ==
    /\ op = "waitForTransaction"
    /\ pc = "loop"
    /\ LoopCondition(now - startTime, timeoutMs)
    /\ \E resp \in Responses(StatusBodies(transactionId)) :
         LET r == getTransactionStatus(resp) IN
         /\ calls' = Append(calls, StatusRequest(resp.ok))
         /\ lateFetches' = lateFetches + (IF DeadlinePassed THEN 1 ELSE 0)
         /\ IF r.threw
            THEN /\ Throw(r.message, r.body, NoTx)
                 /\ UNCHANGED <<lastStatus, fetched>>
            ELSE /\ lastStatus' = r.value.status
                 /\ fetched' = r.value
                 /\ IF WaitStep(r.value) = "return"
                    THEN Return(r.value)
                    ELSE /\ pc' = "sleep"
                         /\ UNCHANGED <<outcome, result, error>>
    /\ UNCHANGED <<inputs, transactionId, timeoutMs, pollIntervalMs, now, startTime,
                   lastLate, signs, purchaseVars>>

\* await new Promise(resolve => setTimeout(resolve, pollIntervalMs))
WaitSleep ==
    /\ op = "waitForTransaction"
    /\ pc = "sleep"
    /\ \E late \in {0, MaxLate} :
         /\ now' = AfterSleep(now, pollIntervalMs, late)
         /\ lastLate' = late
    /\ fetched' = NoTx
    /\ pc' = "loop"
    /\ UNCHANGED <<inputs, transactionId, timeoutMs, pollIntervalMs, startTime,
                   lastStatus, lateFetches, calls, signs, purchaseVars, outcome, result, error>>

\* The loop condition fails: return getTransactionStatus(...), one more fetch.
WaitTimeout ==
    /\ op = "waitForTransaction"
    /\ pc = "loop"
    /\ ~LoopCondition(now - startTime, timeoutMs)
    /\ \E resp \in Responses(StatusBodies(transactionId)) :
         LET r == getTransactionStatus(resp) IN
         /\ calls' = Append(calls, StatusRequest(resp.ok))
         /\ lateFetches' = lateFetches + (IF DeadlinePassed THEN 1 ELSE 0)
         /\ IF r.threw
            THEN /\ Throw(r.message, r.body, NoTx)
                 /\ UNCHANGED fetched
            ELSE /\ Return(r.value)
                 /\ fetched' = r.value
    /\ UNCHANGED <<inputs, transactionId, timeoutMs, pollIntervalMs, now, startTime,
                   lastStatus, lastLate, signs, purchaseVars>>

----------------------------------------------------------------------------
(* createTransfer *)

NeedsApprovalIgnoresStatus(data) == Len(data.pending) > 0
\* txData.status === "awaiting-approval" && txData.approvals?.pending?.length > 0
NeedsApproval(data) == data.status = "awaiting-approval" /\ Len(data.pending) > 0

\* approval?.message of approval = txData.approvals.pending[0]
ApprovalMessage(data) == data.pending[1].message

\* The transaction returned when no approval is submitted.
CreatedTransaction(data) ==
    [id |-> data.id, status |-> data.status, hash |-> data.hash,
     explorerLink |-> data.explorerLink]

ApprovedTransactionStale(approved, data) == CreatedTransaction(data)
\* The transaction returned after the approval response approvedData.
ApprovedTransaction(approved, data) ==
    [id |-> IF Truthy(approved.id) THEN approved.id ELSE data.id,
     status |-> IF Truthy(approved.status) THEN approved.status ELSE "pending",
     hash |-> approved.hash,
     explorerLink |-> approved.explorerLink]

\* Step 1: create the transfer; sign the first pending message when the
\* response asks for an approval, return the transaction otherwise.
TransferCreate ==
    /\ op = "createTransfer"
    /\ pc = "start"
    /\ \E resp \in Responses(TxDataBodies) :
         /\ calls' = Append(calls, [Request("create-transfer", resp.ok) EXCEPT
                                        !.wallet = walletAddress,
                                        !.token = TokenLocator(args.token),
                                        !.recipient = args.recipient,
                                        !.amount = args.amount,
                                        !.signer = SignerLocator(PublicAddress(keypair))])
         /\ IF ~resp.ok
            THEN /\ Throw("Failed to create transfer", resp.text, NoTx)
                 /\ UNCHANGED <<txData, signs, signature>>
            ELSE /\ txData' = resp.json
                 /\ IF NeedsApproval(resp.json) /\ Truthy(ApprovalMessage(resp.json))
                    THEN /\ Sign(ApprovalMessage(resp.json))
                         /\ pc' = "approve"
                         /\ UNCHANGED <<outcome, result, error>>
                    ELSE /\ Return(CreatedTransaction(resp.json))
                         /\ UNCHANGED <<signs, signature>>
    /\ UNCHANGED <<inputs, transactionId, loopVars, order, clientSecret, approvedData,
                   onChainTxId>>

\* Step 2: submit the approval and return the approved transaction.
TransferApprove ==
    /\ op = "createTransfer"
    /\ pc = "approve"
    /\ \E resp \in Responses(ApprovedBodies) :
         /\ calls' = Append(calls, [Request("submit-approval", resp.ok) EXCEPT
                                        !.wallet = walletAddress,
                                        !.txId = txData.id,
                                        !.signer = SignerLocator(PublicAddress(keypair)),
                                        !.signature = signature])
         /\ IF ~resp.ok
            THEN /\ Throw("Failed to approve transfer", resp.text, NoTx)
                 /\ UNCHANGED approvedData
            ELSE /\ approvedData' = resp.json
                 /\ Return(ApprovedTransaction(resp.json, txData))
    /\ UNCHANGED <<inputs, transactionId, loopVars, signs, order, clientSecret, txData,
                   signature, onChainTxId>>

----------------------------------------------------------------------------
(* Single-request reads *)

BalanceBodies ==
    {<<>>, <<[symbol |-> "USDC", amount |-> "5"]>>, <<[symbol |-> "", amount |-> ""]>>}

\* balances.push({token: token.symbol || "Unknown", amount: token.amount || "0"})
Balances(data) ==
    [i \in DOMAIN data |->
        [token |-> IF Truthy(data[i].symbol) THEN data[i].symbol ELSE "Unknown",
         amount |-> IF Truthy(data[i].amount) THEN data[i].amount ELSE "0"]]

GetWalletBalance ==
    /\ op = "getWalletBalance"
    /\ pc = "start"
    /\ \E resp \in Responses(BalanceBodies) :
         LET r == getWalletBalance(resp) IN
         /\ calls' = Append(calls, [Request("get-balances", resp.ok) EXCEPT
                                        !.wallet = walletAddress])
         /\ IF r.threw THEN Throw(r.message, r.body, NoTx)
            ELSE Return(Balances(r.value))
    /\ UNCHANGED <<inputs, transactionId, loopVars, signs, purchaseVars>>

GetTransactionStatus ==
    /\ op = "getTransactionStatus"
    /\ pc = "start"
    /\ \E resp \in Responses(StatusBodies(transactionId)) :
         LET r == getTransactionStatus(resp) IN
         /\ calls' = Append(calls, StatusRequest(resp.ok))
         /\ IF r.threw THEN Throw(r.message, r.body, NoTx)
            ELSE Return(r.value)
    /\ UNCHANGED <<inputs, transactionId, loopVars, signs, purchaseVars>>

GetOrder ==
    /\ op = "getOrder"
    /\ pc = "start"
    /\ \E resp \in Responses(ConfirmedOrders(args.orderId)) :
         LET r == getOrder(resp) IN
         /\ calls' = Append(calls, [Request("get-order", resp.ok) EXCEPT
                                        !.orderId = args.orderId])
         /\ IF r.threw THEN Throw(r.message, r.body, NoTx)
            ELSE Return(r.value)
    /\ UNCHANGED <<inputs, transactionId, loopVars, signs, purchaseVars>>

----------------------------------------------------------------------------
(* Tools (tools.ts): each execute is one action.  A call of an api.ts      *)
(* function from a tool is taken by its completion, returned or threw.     *)

Tools ==
    {"crossmint_setup", "crossmint_configure", "crossmint_balance", "crossmint_send",
     "crossmint_wallet_info", "crossmint_tx_status", "crossmint_buy",
     "crossmint_order_status"}

\* The tools whose execute calls an api.ts function that issues requests.
RemoteTools ==
    {"crossmint_balance", "crossmint_send", "crossmint_tx_status", "crossmint_buy",
     "crossmint_order_status"}

ApiCompletions == {"returned", "threw"}

\* The wallet addresses crossmint_configure is given.
SmartWalletAddresses == {"W1", "W2"}

\* A call of an api.ts function: the key of the config and the wallet address
\* the tool passes, and how the call completes.
ApiCall(fn, completion, apiKey, wallet) ==
    [fn |-> fn, completion |-> completion, apiKey |-> apiKey, wallet |-> wallet,
     timeoutMs |-> 0, id |-> "", status |-> ""]

\* The timeoutMs parameter of a tool: <<>> when the caller gives no number.
TimeoutParams == {<<>>, <<5000>>}

\* typeof params.timeoutMs === "number" ? params.timeoutMs : 60000
TimeoutOf(param) == IF param = <<>> THEN 60000 ELSE param[1]

\* The status of the transaction a completed createTransfer or
\* waitForTransaction gives back.
ImmediateStatuses == {"pending"}
FinalStatuses == {"pending", "success"}

\* execute returns { content: [{ type: "text", text }] }
Resolved(text, api) == [outcome |-> "resolved", text |-> text, api |-> api]

\* an Error leaves the code that called the api.ts function
Rejected(api) == [outcome |-> "rejected", text |-> "", api |-> api]

\* How a call ended, with the wallet record its keystore call gave.
Ended(r, wallet) ==
    [outcome |-> r.outcome, text |-> r.text, api |-> r.api, wallet |-> wallet,
     signature |-> NoSignature,
     transaction |-> IF r.text = "Transfer" THEN r.api[Len(r.api)].status ELSE ""]

CatchMissing(text, r) == r
\* try { ... } catch (error) { return { content: [{ type: "text", text }] } }
Catch(text, r) == IF r.outcome = "rejected" THEN Resolved(text, r.api) ELSE r

getApiConfigOfPlugin(walletData) ==
    IF ~Truthy(walletData.apiKey) THEN [threw |-> TRUE, apiKey |-> ""]
    ELSE [threw |-> FALSE, apiKey |-> "apikey1"]
\* getApiConfig(walletData, environment): throws without an API key, otherwise
\* { apiKey: walletData.apiKey, environment }
getApiConfig(walletData) ==
    IF ~Truthy(walletData.apiKey) THEN [threw |-> TRUE, apiKey |-> ""]
    ELSE [threw |-> FALSE, apiKey |-> walletData.apiKey]

\* The wallet address a tool passes to fn: walletData.smartWalletAddress, and
\* none to getOrder, which takes the config and the order id only.
AddressedWallet(fn, walletData) ==
    IF fn = "getOrder" THEN "" ELSE walletData.smartWalletAddress

WalletGateOfExistence(store, agentId) ==
    IF ~WalletExists(store, agentId) THEN "No wallet found" ELSE "ok"
\* const walletData = getWallet(agentId); if (!walletData) return ...;
\* if (!isWalletConfigured(agentId)) return ...
WalletGate(store, agentId) ==
    IF getWallet(store, agentId) = NoWallet THEN "No wallet found"
    ELSE IF ~isWalletConfigured(store, agentId) THEN "Wallet not fully configured"
    ELSE "ok"

\* One call: the clock ticks, the call and its end are recorded.
ToolStep(call, run, store, generated) ==
    /\ toolClock < MaxCalls
    /\ toolClock' = toolClock + 1
    /\ toolCall' = call
    /\ toolDone' = run
    /\ wallets' = store
    /\ nextKey' = nextKey + generated
    /\ UNCHANGED <<apiVars, lockVars, concVars>>

\* crossmint_setup
Setup ==
    \E agentId \in AgentIds :
        LET got == getOrCreateWallet(wallets, agentId, nextKey, toolClock + 1)
            text == IF isWalletConfigured(got.store, agentId)
                    THEN "Wallet already configured" ELSE "Solana wallet setup"
        IN ToolStep([NoCall EXCEPT !.tool = "crossmint_setup", !.agentId = agentId],
                    Ended(Resolved(text, <<>>), got.wallet),
                    got.store, got.generated)

ConfigureRunWithoutLookup(store, agentId, address, apiKey, time) ==
    IF ~Truthy(address)
        THEN [run |-> Resolved("Wallet address is required.", <<>>),
              store |-> store, wallet |-> NoWallet]
    ELSE IF ~Truthy(apiKey)
        THEN [run |-> Resolved("API key is required.", <<>>),
              store |-> store, wallet |-> NoWallet]
    ELSE LET c == configureWallet(store, agentId, address, apiKey, time) IN
         [run |-> Catch("Failed to configure wallet",
                        IF c.threw THEN Rejected(<<>>)
                        ELSE Resolved("Wallet configured successfully", <<>>)),
          store |-> c.store, wallet |-> c.wallet]
\* What crossmint_configure does with its parameters and the keystore.
ConfigureRun(store, agentId, address, apiKey, time) ==
    IF ~Truthy(address)
        THEN [run |-> Resolved("Wallet address is required.", <<>>),
              store |-> store, wallet |-> NoWallet]
    ELSE IF ~Truthy(apiKey)
        THEN [run |-> Resolved("API key is required.", <<>>),
              store |-> store, wallet |-> NoWallet]
    ELSE IF getWallet(store, agentId) = NoWallet
        THEN [run |-> Resolved("No keypair found", <<>>),
              store |-> store, wallet |-> NoWallet]
    ELSE LET c == configureWallet(store, agentId, address, apiKey, time) IN
         [run |-> Catch("Failed to configure wallet",
                        IF c.threw THEN Rejected(<<>>)
                        ELSE Resolved("Wallet configured successfully", <<>>)),
          store |-> c.store, wallet |-> c.wallet]

\* crossmint_configure
Configure ==
    \E agentId \in AgentIds, address \in {""} \cup SmartWalletAddresses,
       apiKey \in {"", "apikey1", "apikey2"} :
        LET c == ConfigureRun(wallets, agentId, address, apiKey, toolClock + 1) IN
        ToolStep([NoCall EXCEPT !.tool = "crossmint_configure", !.agentId = agentId,
                                !.walletAddress = address, !.apiKey = apiKey],
                 Ended(c.run, c.wallet), c.store, 0)

\* The body of a tool behind its wallet checks: getApiConfig, then one
\* api.ts function, inside try/catch.
RemoteRun(store, agentId, fn, completion, done, failed) ==
    IF WalletGate(store, agentId) # "ok"
    THEN Resolved(WalletGate(store, agentId), <<>>)
    ELSE LET walletData == getWallet(store, agentId)
             apiConfig == getApiConfig(walletData)
             call == ApiCall(fn, completion, apiConfig.apiKey,
                             AddressedWallet(fn, walletData))
         IN Catch(failed,
                  IF apiConfig.threw THEN Rejected(<<>>)
                  ELSE IF completion = "threw" THEN Rejected(<<call>>)
                  ELSE Resolved(done, <<call>>))

\* crossmint_balance
Balance ==
    \E agentId \in AgentIds, completion \in ApiCompletions :
        ToolStep([NoCall EXCEPT !.tool = "crossmint_balance", !.agentId = agentId],
                 Ended(RemoteRun(wallets, agentId, "getWalletBalance", completion,
                            "Wallet balance", "Failed to get balance"), getWallet(wallets, agentId)),
                 wallets, 0)

\* What a createTransfer or waitForTransaction call of crossmint_send gives:
\* how it completes and, when it returns, the transaction's id and status.
TransferResults ==
    [completion : {"returned"}, id : {"", "t1"}, status : ImmediateStatuses]
        \cup [completion : {"threw"}, id : {""}, status : {""}]
WaitResults ==
    [completion : {"returned"}, id : {"t1"}, status : FinalStatuses]
        \cup [completion : {"threw"}, id : {""}, status : {""}]

SendTryAlwaysWaits(store, agentId, wait, timeout, created, waited) ==
    LET walletData == getWallet(store, agentId)
        apiConfig == getApiConfig(walletData)
        transfer == [ApiCall("createTransfer", created.completion, apiConfig.apiKey,
                             AddressedWallet("createTransfer", walletData))
                        EXCEPT !.id = created.id, !.status = created.status]
        waiting == [ApiCall("waitForTransaction", waited.completion, apiConfig.apiKey,
                            AddressedWallet("waitForTransaction", walletData))
                        EXCEPT !.timeoutMs = timeout, !.id = waited.id,
                               !.status = waited.status]
    IN
    IF apiConfig.threw THEN Rejected(<<>>)
    ELSE IF getKeypair(store, agentId).secretKey = <<>>
        THEN Resolved("Failed to load wallet for signing.", <<>>)
    ELSE IF created.completion = "threw" THEN Rejected(<<transfer>>)
    ELSE IF Truthy(created.id)
        THEN IF waited.completion = "threw"
             THEN Rejected(<<transfer, waiting>>)
             ELSE Resolved("Transfer", <<transfer, waiting>>)
    ELSE Resolved("Transfer", <<transfer>>)
\* The try block of crossmint_send: createTransfer and, with wait and a
\* transaction id, waitForTransaction with the timeout; tx is what the last
\* of the calls returned.
SendTry(store, agentId, wait, timeout, created, waited) ==
    LET walletData == getWallet(store, agentId)
        apiConfig == getApiConfig(walletData)
        transfer == [ApiCall("createTransfer", created.completion, apiConfig.apiKey,
                             AddressedWallet("createTransfer", walletData))
                        EXCEPT !.id = created.id, !.status = created.status]
        waiting == [ApiCall("waitForTransaction", waited.completion, apiConfig.apiKey,
                            AddressedWallet("waitForTransaction", walletData))
                        EXCEPT !.timeoutMs = timeout, !.id = waited.id,
                               !.status = waited.status]
    IN
    IF apiConfig.threw THEN Rejected(<<>>)
    ELSE IF getKeypair(store, agentId).secretKey = <<>>
        THEN Resolved("Failed to load wallet for signing.", <<>>)
    ELSE IF created.completion = "threw" THEN Rejected(<<transfer>>)
    ELSE IF wait /\ Truthy(created.id)
        THEN IF waited.completion = "threw"
             THEN Rejected(<<transfer, waiting>>)
             ELSE Resolved("Transfer", <<transfer, waiting>>)
    ELSE Resolved("Transfer", <<transfer>>)

\* execute of crossmint_send: parameter checks, wallet checks, try/catch.
SendRun(store, agentId, to, amount, wait, timeout, created, waited) ==
    IF ~Truthy(to) THEN Resolved("Recipient address is required.", <<>>)
    ELSE IF ~Truthy(amount) THEN Resolved("Amount is required.", <<>>)
    ELSE IF WalletGate(store, agentId) # "ok"
        THEN Resolved(WalletGate(store, agentId), <<>>)
    ELSE Catch("Failed to send",
               SendTry(store, agentId, wait, timeout, created, waited))

\* crossmint_send
Send ==
    \E agentId \in AgentIds, to \in {"", "R1"}, amount \in {"", "5"}, wait \in BOOLEAN,
       timeout \in TimeoutParams, created \in TransferResults, waited \in WaitResults :
        \* a call that is never made completes in no way worth telling apart
        /\ (to = "" \/ amount = "") => created.completion = "threw"
        /\ ~(wait /\ created.id # "") => waited.completion = "threw"
        /\ ToolStep([NoCall EXCEPT !.tool = "crossmint_send", !.agentId = agentId,
                                !.to = to, !.amount = amount, !.wait = wait,
                                !.timeoutMs = timeout],
                     Ended(SendRun(wallets, agentId, to, amount, wait,
                                   TimeoutOf(timeout), created, waited),
                           getWallet(wallets, agentId)),
                     wallets, 0)

\* crossmint_wallet_info
WalletInfo ==
    \E agentId \in AgentIds :
        LET text == IF getWallet(wallets, agentId) = NoWallet THEN "No wallet found"
                    ELSE IF ~isWalletConfigured(wallets, agentId)
                         THEN "Wallet info (not fully configured)"
                    ELSE "Wallet info"
        IN ToolStep([NoCall EXCEPT !.tool = "crossmint_wallet_info", !.agentId = agentId],
                    Ended(Resolved(text, <<>>), getWallet(wallets, agentId)),
                    wallets, 0)

\* crossmint_tx_status: waitForTransaction with wait, getTransactionStatus without
TxStatus ==
    \E agentId \in AgentIds, id \in {"", "t1"}, wait \in BOOLEAN,
       timeout \in TimeoutParams, completion \in ApiCompletions :
        LET fn == IF wait THEN "waitForTransaction" ELSE "getTransactionStatus"
            run == IF ~Truthy(id)
                   THEN Resolved("Transaction ID is required.", <<>>)
                   ELSE RemoteRun(wallets, agentId, fn, completion,
                                  "Transaction", "Failed to get transaction status")
            timed == [run EXCEPT !.api =
                         [i \in DOMAIN run.api |->
                             IF wait THEN [run.api[i] EXCEPT !.timeoutMs = TimeoutOf(timeout)]
                             ELSE run.api[i]]]
        IN ToolStep([NoCall EXCEPT !.tool = "crossmint_tx_status", !.agentId = agentId,
                                   !.transactionId = id, !.wait = wait,
                                   !.timeoutMs = timeout],
                    Ended(timed, getWallet(wallets, agentId)),
                    wallets, 0)

\* The parameters of crossmint_buy: all required fields present, or one of
\* them (addressLine1, say) empty.
BuyFields == {"complete", "missing addressLine1"}

\* execute of crossmint_buy
BuyRun(store, agentId, fields, completion) ==
    IF fields # "complete" THEN Resolved("Missing required fields", <<>>)
    ELSE IF WalletGate(store, agentId) # "ok"
        THEN Resolved(WalletGate(store, agentId), <<>>)
    ELSE IF getKeypair(store, agentId).secretKey = <<>>
        THEN Resolved("Failed to load wallet for signing.", <<>>)
    ELSE LET walletData == getWallet(store, agentId)
             apiConfig == getApiConfig(walletData)
             call == ApiCall("purchaseProduct", completion, apiConfig.apiKey,
                             AddressedWallet("purchaseProduct", walletData))
         IN Catch("Failed to purchase",
                  IF apiConfig.threw THEN Rejected(<<>>)
                  ELSE IF completion = "threw" THEN Rejected(<<call>>)
                  ELSE Resolved("Purchase complete", <<call>>))

\* crossmint_buy
Buy ==
    \E agentId \in AgentIds, fields \in BuyFields, completion \in ApiCompletions :
        ToolStep([NoCall EXCEPT !.tool = "crossmint_buy", !.agentId = agentId,
                                !.fields = fields],
                 Ended(BuyRun(wallets, agentId, fields, completion), getWallet(wallets, agentId)),
                 wallets, 0)

\* crossmint_order_status
OrderStatus ==
    \E agentId \in AgentIds, orderId \in {""} \cup OrderIds,
       completion \in ApiCompletions :
        LET run == IF ~Truthy(orderId) THEN Resolved("Order ID is required.", <<>>)
                   ELSE RemoteRun(wallets, agentId, "getOrder", completion,
                                  "Order Status", "Failed to get order status")
        IN ToolStep([NoCall EXCEPT !.tool = "crossmint_order_status",
                                   !.agentId = agentId, !.orderId = orderId],
                    Ended(run, getWallet(wallets, agentId)),
                    wallets, 0)

\* deleteWallet(agentId), called on the keystore
DeleteWallet ==
    \E agentId \in AgentIds :
        LET d == deleteWallet(wallets, agentId) IN
        ToolStep([NoCall EXCEPT !.tool = "deleteWallet", !.agentId = agentId],
                 [outcome |-> "returned",
                  text |-> IF d.deleted THEN "true" ELSE "false",
                  api |-> <<>>, wallet |-> NoWallet, signature |-> NoSignature,
                  transaction |-> ""],
                 d.store, 0)

\* configureWallet(agentId, smartWalletAddress, apiKey), called on the keystore
ConfigureWallet ==
    \E agentId \in AgentIds, address \in WalletAddresses, apiKey \in {"apikey1"} :
        LET c == configureWallet(wallets, agentId, address, apiKey, toolClock + 1) IN
        ToolStep([NoCall EXCEPT !.tool = "configureWallet", !.agentId = agentId,
                                !.walletAddress = address, !.apiKey = apiKey],
                 [outcome |-> IF c.threw THEN "threw" ELSE "returned",
                  text |-> c.message, api |-> <<>>, wallet |-> c.wallet,
                  signature |-> NoSignature, transaction |-> ""],
                 c.store, 0)

\* signMessage(agentId, message), called on the keystore
SignMessage ==
    \E agentId \in AgentIds, message \in SignedMessages :
        LET g == signMessage(wallets, agentId, message) IN
        ToolStep([NoCall EXCEPT !.tool = "signMessage", !.agentId = agentId,
                                !.message = message],
                 [outcome |-> IF g.threw THEN "threw" ELSE "returned",
                  text |-> g.message, api |-> <<>>, wallet |-> NoWallet,
                  signature |-> g.signature, transaction |-> ""],
                 wallets, 0)

ToolInit ==
    /\ op = "tools"
    /\ pc = "done"
    /\ config = [apiKey |-> "", environment |-> "staging"]
    /\ keypair = NoKeypair
    /\ walletAddress = ""
    /\ args = [recipient |-> "", token |-> "", amount |-> "", orderId |-> ""]
    /\ transactionId = Unset
    /\ timeoutMs = 0
    /\ pollIntervalMs = DefaultPollIntervalMs
    /\ now = 0
    /\ startTime = 0
    /\ calls = <<>>
    /\ signs = <<>>
    /\ order = NoOrder
    /\ clientSecret = Unset
    /\ txData = NoTxData
    /\ signature = NoSignature
    /\ approvedData = NoApproved
    /\ onChainTxId = Unset
    /\ lastStatus = Unset
    /\ fetched = NoTx
    /\ lateFetches = 0
    /\ lastLate = 0
    /\ outcome = "running"
    /\ result = Unset
    /\ error = NoError
    /\ ToolsIdle
    /\ NoInvocations

ToolNext ==
    \/ Setup
    \/ Configure
    \/ Balance
    \/ Send
    \/ WalletInfo
    \/ TxStatus
    \/ Buy
    \/ OrderStatus
    \/ DeleteWallet
    \/ ConfigureWallet
    \/ SignMessage

ToolSpec == ToolInit /\ [][ToolNext]_vars

----------------------------------------------------------------------------
(* Concurrent writers of the keystore.  A mutation reads the whole mapping, *)
(* changes one entry and writes the whole mapping back; the design puts one *)
(* global write lock around it.                                            *)

Mutations == {"getOrCreate", "attachCredential", "delete"}

LockFreeAlways(holder) == TRUE
\* The write lock can be taken when no writer holds it.
LockFree(holder) == holder = NoWriter

\* The mapping a mutation writes back, from the mapping it read.
Mutated(kind, store, agentId, n, time) ==
    CASE kind = "getOrCreate" -> getOrCreateWallet(store, agentId, n, time)
      [] kind = "attachCredential" ->
            [store |-> configureWallet(store, agentId, "W1", "apikey1", time).store,
             generated |-> 0]
      [] OTHER -> [store |-> deleteWallet(store, agentId).store, generated |-> 0]

\* A writer calls getOrCreate, attachCredential or delete for an agent.
KeystoreRequest ==
    \E w \in Writers, kind \in Mutations, agentId \in AgentIds :
        /\ writers[w].pc = "idle"
        /\ toolClock + Cardinality({v \in Writers : writers[v].pc # "idle"}) < MaxCalls
        /\ writers' = [writers EXCEPT ![w] =
                          [@ EXCEPT !.pc = "waiting", !.kind = kind,
                                    !.agentId = agentId,
                                    !.waited = lock # NoWriter]]
        /\ UNCHANGED <<apiVars, toolVars, lock, concVars>>

\* The writer takes the lock and reads the whole mapping.
KeystoreAcquire ==
    \E w \in Writers :
        /\ writers[w].pc = "waiting"
        /\ LockFree(lock)
        /\ lock' = w
        /\ writers' = [writers EXCEPT ![w] =
                          [@ EXCEPT !.pc = "holding", !.snapshot = wallets]]
        /\ UNCHANGED <<apiVars, toolVars, concVars>>

\* The writer changes its agent's entry in what it read, writes the whole
\* mapping back and releases the lock.
KeystoreCommit ==
    \E w \in Writers :
        /\ writers[w].pc = "holding"
        /\ LET m == Mutated(writers[w].kind, writers[w].snapshot, writers[w].agentId,
                            nextKey, toolClock + 1)
           IN /\ wallets' = m.store
              /\ nextKey' = nextKey + m.generated
        /\ toolClock' = toolClock + 1
        /\ lock' = NoWriter
        /\ writers' = [writers EXCEPT ![w] =
                          [@ EXCEPT !.pc = "idle", !.commits = @ + 1]]
        /\ UNCHANGED <<apiVars, toolCall, toolDone, concVars>>

KeystoreNext ==
    \/ KeystoreRequest
    \/ KeystoreAcquire
    \/ KeystoreCommit

KeystoreSpec == ToolInit /\ [][KeystoreNext]_vars

----------------------------------------------------------------------------
(* Concurrent invocations of purchaseProduct and createTransfer.  Each      *)
(* invocation is an async function call with its own arguments and locals; *)
(* invocations interleave at their awaits.  The remote service gives every *)
(* order and transaction it creates an id of its own, here numbered by the *)
(* invocation whose request created it, and answers a request about a      *)
(* transaction with that transaction's data.  The 30 s deadline of the     *)
(* broadcast wait is taken as a number of polls.                           *)

Invocations == 1..MaxInvocations

\* The names of what the remote service creates for the n-th invocation.
OrderNames == <<"o1", "o2", "o3", "o4", "o5", "o6", "o7", "o8">>
TxNames == <<"t1", "t2", "t3", "t4", "t5", "t6", "t7", "t8">>
SerializedNames == <<"stx1", "stx2", "stx3", "stx4", "stx5", "stx6", "stx7", "stx8">>
SecretNames == <<"cs1", "cs2", "cs3", "cs4", "cs5", "cs6", "cs7", "cs8">>
ChallengeNames == <<"MSG1", "MSG2", "MSG3", "MSG4", "MSG5", "MSG6", "MSG7", "MSG8">>
ReferenceNames ==
    <<"chain1", "chain2", "chain3", "chain4", "chain5", "chain6", "chain7", "chain8">>

TxIndex(id) == CHOOSE n \in DOMAIN TxNames : TxNames[n] = id

\* The callers: a keypair with the smart wallet and API key configured for it.
Callers ==
    {[keypair |-> [publicKey |-> "PK1", secretKey |-> "SK1"],
      wallet |-> "W1", apiKey |-> "apikey1"],
     [keypair |-> [publicKey |-> "PK2", secretKey |-> "SK2"],
      wallet |-> "W2", apiKey |-> "apikey2"]}

NoResult == [orderId |-> "", transactionId |-> "", onChainTxId |-> ""]

\* What a response told its invocation.
NoMade == [orderId |-> "", serialized |-> "", clientSecret |-> "", txId |-> "",
           challenge |-> "", reference |-> ""]

\* The arguments and locals of an invocation that has just been called.
CalledRun(fn, caller) ==
    [fn |-> fn, pc |-> "start", keypair |-> caller.keypair, wallet |-> caller.wallet,
     apiKey |-> caller.apiKey, order |-> NoOrder, clientSecret |-> Unset,
     txData |-> NoTxData, signature |-> NoSignature, onChainTxId |-> Unset,
     polls |-> 0, outcome |-> "running", result |-> NoResult]

FrameShared(all, i) == all[1]
\* The arguments and const locals of invocation i: every call of an async
\* function has its own.
Frame(all, i) == all[i]

RunRequest(r, ep, ok) ==
    [NoRequest EXCEPT !.ep = ep, !.apiKey = r.apiKey, !.ok = ok]

Answer(ok, body) ==
    [ok |-> ok, text |-> IF ok THEN "" ELSE "server-error", json |-> body]

RunThrew(r) == [r EXCEPT !.pc = "done", !.outcome = "threw"]
RunReturned(r, value) == [r EXCEPT !.pc = "done", !.outcome = "returned", !.result = value]

\* Invocation i issues req, the remote answers made, and i continues as next.
RunStep(i, next, req, made) ==
    /\ runs' = [runs EXCEPT ![i] = next]
    /\ wire' = [wire EXCEPT ![i] = Append(@, [req |-> req, made |-> made])]
    /\ UNCHANGED <<apiVars, toolVars, lockVars>>

\* purchaseProduct step 1
RunCreateOrder ==
    \E i \in Invocations, ok \in BOOLEAN, prepared \in BOOLEAN :
        LET r == Frame(runs, i)
            n == i
            body == [order |->
                        [orderId |-> OrderNames[n], phase |-> "payment",
                         payment |->
                            [status |-> "awaiting-payment",
                             serializedTransaction |->
                                IF prepared THEN SerializedNames[n] ELSE "",
                             failureCode |->
                                IF prepared THEN "" ELSE "insufficient-funds",
                             failureMessage |-> IF prepared THEN "" ELSE "low"]],
                     clientSecret |-> SecretNames[n]]
            c == createOrder(Answer(ok, body))
            req == [RunRequest(r, "create-order", ok) EXCEPT !.wallet = r.wallet]
        IN /\ r.fn = "purchaseProduct"
           /\ r.pc = "start"
           /\ issued' = IF ok THEN issued + 1 ELSE issued
           /\ IF c.threw
              THEN RunStep(i, RunThrew(r), req, NoMade)
              ELSE RunStep(i,
                     IF OrderCheck(c.value.order) = "createTransaction"
                     THEN [r EXCEPT !.order = c.value.order,
                                    !.clientSecret = c.value.clientSecret,
                                    !.pc = "createTransaction"]
                     ELSE RunThrew([r EXCEPT !.order = c.value.order,
                                             !.clientSecret = c.value.clientSecret]),
                     req,
                     [NoMade EXCEPT !.orderId = body.order.orderId,
                                    !.serialized = body.order.payment.serializedTransaction,
                                    !.clientSecret = body.clientSecret])

\* purchaseProduct steps 2a and 2b
RunCreateTransaction ==
    \E i \in Invocations, ok \in BOOLEAN :
        LET r == Frame(runs, i)
            n == i
            signer == SignerLocator(PublicAddress(r.keypair))
            body == [id |-> TxNames[n], status |-> "awaiting-approval", hash |-> "",
                     explorerLink |-> <<>>,
                     pending |-> <<[signer |-> signer, message |-> ChallengeNames[n]]>>]
            c == createTransaction(Answer(ok, body))
            req == [RunRequest(r, "create-wallet-transaction", ok) EXCEPT
                        !.wallet = r.wallet,
                        !.transaction = r.order.payment.serializedTransaction,
                        !.signer = signer]
        IN /\ r.fn = "purchaseProduct"
           /\ r.pc = "createTransaction"
           /\ issued' = IF ok THEN issued + 1 ELSE issued
           /\ IF c.threw
              THEN RunStep(i, RunThrew(r), req, NoMade)
              ELSE RunStep(i,
                     IF ~Truthy(MessageToSign(c.value))
                     THEN RunThrew([r EXCEPT !.txData = c.value])
                     ELSE [r EXCEPT !.txData = c.value,
                                    !.signature =
                                        Bs58Encode(SignDetached(
                                            Bs58Decode(MessageToSign(c.value)),
                                            r.keypair.secretKey)),
                                    !.pc = "submitApproval"],
                     req,
                     [NoMade EXCEPT !.txId = body.id,
                                    !.challenge = body.pending[1].message])

\* createTransfer step 1
RunTransferCreate ==
    \E i \in Invocations, ok \in BOOLEAN, approval \in BOOLEAN :
        LET r == Frame(runs, i)
            n == i
            signer == SignerLocator(PublicAddress(r.keypair))
            body == [id |-> TxNames[n],
                     status |-> IF approval THEN "awaiting-approval" ELSE "pending",
                     hash |-> "", explorerLink |-> <<>>,
                     pending |-> IF approval
                                 THEN <<[signer |-> signer, message |-> ChallengeNames[n]]>>
                                 ELSE <<>>]
            req == [RunRequest(r, "create-transfer", ok) EXCEPT
                        !.wallet = r.wallet, !.token = TokenLocator("usdc"),
                        !.recipient = "R1", !.amount = "5", !.signer = signer]
        IN /\ r.fn = "createTransfer"
           /\ r.pc = "start"
           /\ issued' = IF ok THEN issued + 1 ELSE issued
           /\ IF ~ok
              THEN RunStep(i, RunThrew(r), req, NoMade)
              ELSE RunStep(i,
                     IF NeedsApproval(body) /\ Truthy(ApprovalMessage(body))
                     THEN [r EXCEPT !.txData = body,
                                    !.signature =
                                        Bs58Encode(SignDetached(
                                            Bs58Decode(ApprovalMessage(body)),
                                            r.keypair.secretKey)),
                                    !.pc = "submitApproval"]
                     ELSE RunReturned([r EXCEPT !.txData = body],
                                      [NoResult EXCEPT !.transactionId =
                                            CreatedTransaction(body).id]),
                     req,
                     [NoMade EXCEPT !.txId = body.id,
                                    !.challenge = IF approval THEN ChallengeNames[n]
                                                  ELSE ""])

\* purchaseProduct step 2c, createTransfer step 2
RunSubmitApproval ==
    \E i \in Invocations, ok \in BOOLEAN :
        LET r == Frame(runs, i)
            req == [RunRequest(r, "submit-approval", ok) EXCEPT
                        !.wallet = r.wallet,
                        !.txId = r.txData.id,
                        !.signer = SignerLocator(PublicAddress(r.keypair)),
                        !.signature = r.signature]
            body == [id |-> req.txId, status |-> "pending", hash |-> "",
                     explorerLink |-> <<>>]
        IN /\ r.pc = "submitApproval"
           /\ UNCHANGED issued
           /\ RunStep(i,
                IF ~ok THEN RunThrew(r)
                ELSE IF r.fn = "purchaseProduct" THEN [r EXCEPT !.pc = "loop"]
                ELSE RunReturned(r, [NoResult EXCEPT !.transactionId =
                                          ApprovedTransaction(body, r.txData).id]),
                req, NoMade)

\* One iteration of waitForTransactionBroadcast inside purchaseProduct, with
\* the sleep that follows it when the transaction has no reference yet.
RunPoll ==
    \E i \in Invocations, ok \in BOOLEAN, broadcast \in BOOLEAN :
        LET r == Frame(runs, i)
            req == [RunRequest(r, "get-transaction-status", ok) EXCEPT
                        !.wallet = r.wallet, !.txId = r.txData.id]
            reference == IF broadcast THEN ReferenceNames[TxIndex(req.txId)] ELSE ""
            body == [id |-> req.txId,
                     status |-> IF broadcast THEN "success" ELSE "pending",
                     hash |-> "", txId |-> "", onChain |-> [txId |-> reference]]
            c == getTransactionStatus(Answer(ok, body))
        IN /\ r.pc = "loop"
           /\ r.polls < MaxPolls
           /\ UNCHANGED issued
           /\ IF c.threw
              THEN RunStep(i, RunThrew(r), req, NoMade)
              ELSE LET step == BroadcastStep(c.value) IN
                   RunStep(i,
                     IF step.kind = "return"
                     THEN IF BroadcastCheck(step.txId) = "throw"
                          THEN RunThrew([r EXCEPT !.onChainTxId = step.txId])
                          ELSE [r EXCEPT !.onChainTxId = step.txId, !.pc = "confirm"]
                     ELSE IF step.kind = "throw" THEN RunThrew(r)
                     ELSE [r EXCEPT !.polls = @ + 1],
                     req, [NoMade EXCEPT !.reference = reference])

\* The deadline of the broadcast wait passes: it returns null, purchaseProduct
\* throws.
RunTimeout ==
    \E i \in Invocations :
        LET r == Frame(runs, i) IN
        /\ r.pc = "loop"
        /\ r.polls = MaxPolls
        /\ runs' = [runs EXCEPT ![i] = RunThrew([r EXCEPT !.onChainTxId = Null])]
        /\ UNCHANGED <<wire, issued, apiVars, toolVars, lockVars>>

\* purchaseProduct step 6
RunConfirm ==
    \E i \in Invocations, ok \in BOOLEAN :
        LET r == Frame(runs, i)
            req == [ConfirmationRequest(r.order.orderId, r.onChainTxId,
                                        r.clientSecret, ok)
                        EXCEPT !.apiKey = r.apiKey]
            body == [orderId |-> req.orderId, phase |-> "completed",
                     payment |-> [status |-> "completed", serializedTransaction |-> "",
                                  failureCode |-> "", failureMessage |-> ""]]
            c == submitPaymentConfirmation(Answer(ok, body))
        IN /\ r.pc = "confirm"
           /\ UNCHANGED issued
           /\ RunStep(i,
                IF c.threw THEN RunThrew(r)
                ELSE RunReturned(r, [orderId |-> c.value.orderId,
                                     transactionId |-> r.txData.id,
                                     onChainTxId |-> r.onChainTxId]),
                req, NoMade)

ConcurrentInit ==
    /\ op = "concurrent"
    /\ pc = "done"
    /\ config = [apiKey |-> "", environment |-> "staging"]
    /\ keypair = NoKeypair
    /\ walletAddress = ""
    /\ args = [recipient |-> "", token |-> "", amount |-> "", orderId |-> ""]
    /\ transactionId = Unset
    /\ timeoutMs = 0
    /\ pollIntervalMs = DefaultPollIntervalMs
    /\ now = 0
    /\ startTime = 0
    /\ calls = <<>>
    /\ signs = <<>>
    /\ order = NoOrder
    /\ clientSecret = Unset
    /\ txData = NoTxData
    /\ signature = NoSignature
    /\ approvedData = NoApproved
    /\ onChainTxId = Unset
    /\ lastStatus = Unset
    /\ fetched = NoTx
    /\ lateFetches = 0
    /\ lastLate = 0
    /\ outcome = "running"
    /\ result = Unset
    /\ error = NoError
    /\ ToolsIdle
    /\ runs \in [Invocations ->
                    {CalledRun(fn, caller) :
                        fn \in {"purchaseProduct", "createTransfer"}, caller \in Callers}]
    /\ wire = [i \in Invocations |-> <<>>]
    /\ issued = 0

ConcurrentNext ==
    \/ RunCreateOrder
    \/ RunCreateTransaction
    \/ RunTransferCreate
    \/ RunSubmitApproval
    \/ RunPoll
    \/ RunTimeout
    \/ RunConfirm

ConcurrentSpec == ConcurrentInit /\ [][ConcurrentNext]_vars

----------------------------------------------------------------------------
(* Specification *)

Next ==
    \/ PurchaseCreateOrder
    \/ PurchaseCreateTransaction
    \/ PurchaseSubmitApproval
    \/ PurchaseConfirm
    \/ RecoverConfirm
    \/ BroadcastPoll
    \/ BroadcastSleep
    \/ BroadcastTimeout
    \/ WaitPoll
    \/ WaitSleep
    \/ WaitTimeout
    \/ TransferCreate
    \/ TransferApprove
    \/ GetWalletBalance
    \/ GetTransactionStatus
    \/ GetOrder

Spec == Init /\ [][Next]_vars

\* Every remote call eventually returns and the clock advances: a step that
\* can be taken is eventually taken.  The request log is capped, so that a
\* loop that never ends shows as an invocation that stops short of its end.
BoundedNext == Next /\ Len(calls') <= MaxRequests

LiveSpec == Init /\ [][BoundedNext]_vars /\ WF_vars(BoundedNext)

----------------------------------------------------------------------------
(* Properties *)

CallsTo(ep) == {i \in DOMAIN calls : calls[i].ep = ep}

\* The payment confirmation of this order was issued and answered 2xx.
ConfirmationAccepted ==
    \E i \in CallsTo("submit-payment-confirmation") :
        calls[i].orderId = order.orderId /\ calls[i].ok

\* C1: purchaseProduct returns a PurchaseResult only when the payment
\* confirmation of its order was issued and answered 2xx; whenever it ends
\* without an accepted confirmation it ends with an error, also when an
\* on-chain reference had been observed.
C1_SuccessOnlyAfterConfirmation ==
    op = "purchaseProduct" =>
        /\ outcome = "returned" => ConfirmationAccepted
        /\ (pc = "done" /\ ~ConfirmationAccepted) => outcome = "threw"
        /\ (pc = "done" /\ Truthy(onChainTxId) /\ ~ConfirmationAccepted)
              => outcome = "threw"

C1_Witness ==
    /\ op = "purchaseProduct"
    /\ outcome = "returned"
    /\ ConfirmationAccepted
    /\ Truthy(onChainTxId)

\* waitForTransactionBroadcast returned null to purchaseProduct: its deadline
\* elapsed before any poll gave an on-chain reference.
BroadcastTimedOut ==
    /\ op = "purchaseProduct"
    /\ onChainTxId = Null
    /\ now - startTime >= timeoutMs

\* C2: when the broadcast wait's deadline elapses without a poll having
\* returned an on-chain reference, the purchase fails with the broadcast
\* timeout error and the payment-confirmation endpoint is never called.
C2_BroadcastTimeoutFails ==
    (op = "purchaseProduct" /\ onChainTxId = Null) =>
        /\ now - startTime >= timeoutMs
        /\ outcome = "threw"
        /\ error.message = "Timeout waiting for transaction to be broadcast on-chain"
        /\ CallsTo("submit-payment-confirmation") = {}

C2_Witness ==
    /\ BroadcastTimedOut
    /\ outcome = "threw"
    /\ Cardinality(CallsTo("get-transaction-status")) >= 2

\* The create-order response had no serialized transaction and the failure
\* code insufficient-funds.
InsufficientFundsOrder ==
    /\ op = "purchaseProduct"
    /\ order # NoOrder
    /\ ~Truthy(order.payment.serializedTransaction)
    /\ order.payment.failureCode = "insufficient-funds"

\* C3: an order without serialized transaction and with failure code
\* insufficient-funds makes the purchase fail with the insufficient-funds
\* error, create-order being the only request ever issued.
C3_InsufficientFundsStops ==
    InsufficientFundsOrder =>
        /\ outcome = "threw"
        /\ error.message = "Insufficient funds"
        /\ Len(calls) = 1
        /\ calls[1].ep = "create-order"

C3_Witness == InsufficientFundsOrder /\ pc = "done"

\* The secret key sk occurs in no header, path or body field of request r.
KeyFree(r, sk) ==
    /\ sk \notin {r.apiKey, r.wallet, r.txId, r.orderId, r.authorization,
                  r.recipient, r.amount, r.transaction, r.paymentTxId}
    /\ \A j \in DOMAIN r.token : r.token[j] # sk
    /\ \A j \in DOMAIN r.signer : r.signer[j] # sk
    /\ sk \notin {r.signature.signedBy, r.signature.over, r.signature.enc}

\* C4: no request of any operation contains a secret key; a request that
\* names a signer names the local public address, and a relayed signature is
\* one made by the local key.
C4_SecretKeyNeverSent ==
    \A i \in DOMAIN calls :
        /\ \A sk \in SecretKeys : KeyFree(calls[i], sk)
        /\ calls[i].signer # <<>> =>
              calls[i].signer = <<"external-wallet", keypair.publicKey>>
        /\ calls[i].signature # NoSignature =>
              /\ calls[i].signature.signedBy = keypair.publicKey
              /\ calls[i].signature.enc = "base58"

C4_Witness ==
    \E i \in DOMAIN calls :
        /\ calls[i].ep = "submit-approval"
        /\ calls[i].signature.signedBy = keypair.publicKey
        /\ keypair.secretKey \in SecretKeys

Rank(ep) ==
    CASE ep = "create-order" -> 1
      [] ep = "create-wallet-transaction" -> 2
      [] ep = "submit-approval" -> 3
      [] ep = "get-transaction-status" -> 4
      [] ep = "submit-payment-confirmation" -> 5
      [] OTHER -> 0

\* C5: the requests of one purchase are create-order, create-wallet-
\* transaction, submit-approval, one or more status polls and submit-payment-
\* confirmation, in this order; only the poll repeats; and a request is
\* issued only after every earlier one succeeded.
C5_PurchaseCallOrder ==
    op = "purchaseProduct" =>
        /\ \A i \in DOMAIN calls : Rank(calls[i].ep) >= 1
        /\ calls # <<>> => Rank(calls[1].ep) = 1
        /\ \A i \in 1..(Len(calls) - 1) :
              /\ calls[i].ok
              /\ \/ Rank(calls[i + 1].ep) = Rank(calls[i].ep) + 1
                 \/ Rank(calls[i].ep) = 4 /\ Rank(calls[i + 1].ep) = 4
        /\ CallsTo("create-wallet-transaction") # {} =>
              Truthy(order.payment.serializedTransaction)
        /\ CallsTo("submit-approval") # {} =>
              Len(txData.pending) >= 1 /\ Truthy(txData.pending[1].message)
        /\ \A i \in CallsTo("submit-payment-confirmation") :
              Truthy(calls[i].paymentTxId)

C5_Witness ==
    /\ op = "purchaseProduct"
    /\ outcome = "returned"
    /\ Cardinality(CallsTo("get-transaction-status")) >= 2
    /\ Len(calls) >= 6

\* purchaseProduct has received the create-wallet-transaction response.
TransactionCreated == op = "purchaseProduct" /\ txData # NoTxData

\* The first pending entry of the created transaction carries a message.
FirstPendingHasMessage ==
    Len(txData.pending) >= 1 /\ Truthy(txData.pending[1].message)

TransferCreated == op = "createTransfer" /\ txData # NoTxData

\* C7: when the create-transfer response is not (awaiting-approval with a
\* pending approval present), createTransfer returns the created transaction
\* as it is, at once, without signing and without submit-approval.
C7_NoApprovalReturnsAsIs ==
    (TransferCreated
        /\ ~(txData.status = "awaiting-approval" /\ Len(txData.pending) > 0)) =>
        /\ outcome = "returned"
        /\ result = [id |-> txData.id, status |-> txData.status,
                     hash |-> txData.hash, explorerLink |-> txData.explorerLink]
        /\ signs = <<>>
        /\ Len(calls) = 1
        /\ calls[1].ep = "create-transfer"

C7_Witness ==
    /\ TransferCreated
    /\ txData.status = "success"
    /\ Len(txData.pending) > 0
    /\ Truthy(txData.pending[1].message)
    /\ outcome = "returned"

\* The approval request createTransfer has to send for the created transaction.
IsOwnApproval(r) ==
    /\ r.ep = "submit-approval"
    /\ r.wallet = walletAddress
    /\ r.txId = txData.id
    /\ r.signer = <<"external-wallet", keypair.publicKey>>
    /\ r.signature = [signedBy |-> keypair.publicKey,
                      over |-> signs[1].message, enc |-> "base58"]

\* The result is the transaction of the approval response.
ReflectsApproval ==
    /\ result.id = (IF approvedData.id # "" THEN approvedData.id ELSE txData.id)
    /\ result.status =
          (IF approvedData.status # "" THEN approvedData.status ELSE "pending")
    /\ result.hash = approvedData.hash
    /\ result.explorerLink = approvedData.explorerLink

C9_NoFetchAfterDeadline == lateFetches = 0

\* waitForTransaction has ended and its deadline had elapsed: no iteration of
\* the loop saw a terminal status.
WaitTimedOut ==
    /\ op = "waitForTransaction"
    /\ pc = "done"
    /\ now - startTime >= timeoutMs

\* C10: when waitForTransaction's deadline elapses with no terminal status
\* observed, it returns the status its polling observed last, a non-terminal
\* one, and does not raise.
C10_TimeoutReturnsLastObserved ==
    WaitTimedOut =>
        /\ outcome = "returned"
        /\ ~IsTerminal(result.status)
        /\ lastStatus # Unset => result.status = lastStatus

\* The operations that run a poll loop, and the loop being over.
PollLoopCallers == {"waitForTransaction", "waitForTransactionBroadcast", "purchaseProduct"}

LoopEnded ==
    /\ op \in PollLoopCallers
    /\ transactionId # Unset
    /\ pc \notin {"loop", "sleep"}

\* C11: a status request that fails while the loop condition still holds
\* does not end the poll loop: no loop ends with the error of a failed status
\* request unless its deadline had been reached.
C11_FailedFetchContinues ==
    (/\ op \in PollLoopCallers
     /\ outcome = "threw"
     /\ error.message = "Failed to get transaction status")
        => ~LoopCondition(now - startTime, timeoutMs)

\* C12: a poll loop called with timeout 0 issues exactly one status request
\* and never sleeps before it ends.
C12_ZeroDeadlineOneFetch ==
    (/\ op \in {"waitForTransaction", "waitForTransactionBroadcast"}
     /\ timeoutMs = 0
     /\ pc = "done")
        => /\ Cardinality(CallsTo("get-transaction-status")) = 1
           /\ now = startTime

MutatingEndpoints ==
    {"create-transfer", "submit-approval", "create-order",
     "create-wallet-transaction", "submit-payment-confirmation"}

\* The Error message of a non-2xx response of endpoint ep.
FailureMessage(ep) ==
    CASE ep = "create-transfer" -> "Failed to create transfer"
      [] ep = "submit-approval" ->
            IF op = "createTransfer" THEN "Failed to approve transfer"
            ELSE "Failed to submit approval"
      [] ep = "create-order" -> "Failed to create order"
      [] ep = "create-wallet-transaction" -> "Failed to create transaction"
      [] ep = "submit-payment-confirmation" -> "Failed to submit payment confirmation"

\* C14: a non-2xx response to a mutating request ends the operation with
\* that endpoint's error and the response body; the request is the last one
\* of the operation and the only one to its endpoint.
C14_NoRetryOnFailure ==
    \A i \in DOMAIN calls :
        (calls[i].ep \in MutatingEndpoints /\ ~calls[i].ok) =>
            /\ i = Len(calls)
            /\ pc = "done"
            /\ outcome = "threw"
            /\ error.message = FailureMessage(calls[i].ep)
            /\ error.body \in ErrorBodies
            /\ Cardinality(CallsTo(calls[i].ep)) = 1

C14_Witness ==
    /\ op = "purchaseProduct"
    /\ Len(calls) >= 4
    /\ calls[Len(calls)].ep = "submit-payment-confirmation"
    /\ ~calls[Len(calls)].ok
    /\ outcome = "threw"
    /\ error.body = "server-error"

\* The approval of the purchase's transaction was submitted and answered 2xx.
ApprovalAccepted == \E i \in CallsTo("submit-approval") : calls[i].ok

\* The recovering caller's payment confirmation was answered 2xx.
RecoveryConfirmed ==
    \E i \in CallsTo("submit-payment-confirmation") :
        calls[i].orderId = args.orderId /\ calls[i].ok

C24_ReturnsAfterConfirmation ==
    (op = "purchaseProduct" /\ ConfirmationAccepted) =>
        /\ pc = "done"
        /\ outcome = "returned"
        /\ calls[Len(calls)].ep = "submit-payment-confirmation"
        /\ Cardinality(CallsTo("submit-payment-confirmation")) = 1
        /\ CallsTo("get-order") = {}
        /\ result.order \in ConfirmedOrders(order.orderId)
        /\ result.order # order

\* The purchase returned an order that is confirmed but not yet completed.
C24_Witness ==
    /\ op = "purchaseProduct"
    /\ ConfirmationAccepted
    /\ outcome = "returned"
    /\ result.order.phase = "payment"
    /\ result.order.payment.status = "completed"
    /\ Cardinality(CallsTo("get-transaction-status")) >= 2

\* C25: as soon as a fetch of waitForTransaction gives a transaction whose
\* status is success, completed, failed, rejected or cancelled, the function
\* has returned that transaction; it fetches nothing after it.
C25_StopsAtTerminalStatus ==
    (op = "waitForTransaction" /\ fetched # NoTx /\ IsTerminal(fetched.status)) =>
        /\ pc = "done"
        /\ outcome = "returned"
        /\ result = fetched
        /\ calls[Len(calls)].ep = "get-transaction-status"
        /\ calls[Len(calls)].txId = fetched.id

\* A later iteration of the loop, before the deadline, fetched a cancelled
\* transaction.
C25_Witness ==
    /\ op = "waitForTransaction"
    /\ outcome = "returned"
    /\ result.status = "cancelled"
    /\ result = fetched
    /\ Len(calls) >= 2
    /\ now - startTime < timeoutMs

\* The reference a status response carries, by priority: onChain.txId, then
\* the top-level txId, then, for status success or completed, hash.
ReferenceOf(tx) ==
    IF tx.onChain.txId # "" THEN tx.onChain.txId
    ELSE IF tx.txId # "" THEN tx.txId
    ELSE IF tx.status \in {"success", "completed"} /\ tx.hash # "" THEN tx.hash
    ELSE Null

\* C26: after every poll of waitForTransactionBroadcast, the function has
\* returned the reference of the fetched transaction (onChain.txId, else the
\* top-level txId, else hash when the status is success or completed), and
\* when the transaction carries none it has returned nothing for that poll.
C26_ReferencePriority ==
    (op = "waitForTransactionBroadcast" /\ fetched # NoTx) =>
        IF ReferenceOf(fetched) # Null
        THEN outcome = "returned" /\ result = ReferenceOf(fetched)
        ELSE /\ outcome # "returned"
             /\ fetched.status = "failed" <=> outcome = "threw"

\* A response with both onChain.txId and a top-level txId: the former wins.
C26_Witness ==
    /\ op = "waitForTransactionBroadcast"
    /\ fetched.onChain.txId = "chainA"
    /\ fetched.txId = "chainB"
    /\ outcome = "returned"
    /\ result = "chainA"
    /\ Len(calls) >= 2

\* C27: in a purchase that returned, every status poll asked about the
\* transaction the create-wallet-transaction response named; the confirmation
\* followed an answered poll, was addressed to the order the create-order
\* response named and carried the reference the broadcast wait returned; and
\* the result holds that order id's confirmed order, that transaction id and
\* that reference.
C27_IdentifierFlow ==
    (op = "purchaseProduct" /\ outcome = "returned") =>
        LET n == Len(calls)
            conf == calls[n]
        IN /\ conf.ep = "submit-payment-confirmation"
           /\ calls[n - 1].ep = "get-transaction-status"
           /\ calls[n - 1].ok
           /\ \A i \in CallsTo("get-transaction-status") :
                 calls[i].txId = txData.id /\ calls[i].wallet = walletAddress
           /\ \A i \in CallsTo("submit-approval") : calls[i].txId = txData.id
           /\ onChainTxId \in {"chainA", "chainB", "hashC"}
           /\ conf.paymentTxId = onChainTxId
           /\ conf.orderId = order.orderId
           /\ result.order.orderId = order.orderId
           /\ result.order \in ConfirmedOrders(order.orderId)
           /\ result.transactionId = txData.id
           /\ result.onChainTxId = onChainTxId
           /\ result.explorerLink = ExplorerLink(onChainTxId)

C27_Witness ==
    /\ op = "purchaseProduct"
    /\ outcome = "returned"
    /\ result.order.orderId = "o1"
    /\ result.transactionId = "t1"
    /\ result.onChainTxId = "chainA"
    /\ calls[Len(calls)].orderId = "o1"
    /\ calls[Len(calls)].paymentTxId = "chainA"

\* The create-order response had no serialized transaction and a failure
\* code that is absent or other than insufficient-funds.
UnpayableOrder ==
    /\ op = "purchaseProduct"
    /\ order # NoOrder
    /\ ~Truthy(order.payment.serializedTransaction)
    /\ order.payment.failureCode # "insufficient-funds"

\* C28: an order without serialized transaction whose failure code is absent
\* or other than insufficient-funds makes the purchase fail with the
\* no-serialized-transaction error, which names the order's payment status,
\* "unknown" when the order has none; create-order is the only request ever
\* issued, so no create-wallet-transaction call is made.
C28_NoTransactionStops ==
    UnpayableOrder =>
        /\ outcome = "threw"
        /\ error.message =
              "Order created but no serialized transaction returned. Payment status"
        /\ error.body = IF order.payment.status = "" THEN "unknown"
                        ELSE order.payment.status
        /\ Len(calls) = 1
        /\ calls[1].ep = "create-order"
        /\ CallsTo("create-wallet-transaction") = {}

C28_Witness ==
    /\ UnpayableOrder
    /\ pc = "done"
    /\ order.payment.failureCode = ""
    /\ order.payment.status = ""
    /\ error.body = "unknown"

\* C29: in a purchase, every create-wallet-transaction request names the
\* signer external-wallet:<local public address>; every submit-approval
\* request directly follows an answered create-wallet-transaction request,
\* names the same signer, and is addressed to that request's wallet and to
\* the transaction id its response gave.
C29_SameSignerAndTransaction ==
    op = "purchaseProduct" =>
        /\ \A i \in CallsTo("create-wallet-transaction") :
              calls[i].signer = <<"external-wallet", keypair.publicKey>>
        /\ \A i \in CallsTo("submit-approval") :
              /\ i > 1
              /\ calls[i - 1].ep = "create-wallet-transaction"
              /\ calls[i - 1].ok
              /\ calls[i].signer = calls[i - 1].signer
              /\ calls[i].signer = <<"external-wallet", keypair.publicKey>>
              /\ calls[i].wallet = calls[i - 1].wallet
              /\ calls[i].wallet = walletAddress
              /\ txData # NoTxData
              /\ calls[i].txId = txData.id

C29_Witness ==
    /\ op = "purchaseProduct"
    /\ Len(calls) >= 3
    /\ calls[2].ep = "create-wallet-transaction"
    /\ calls[3].ep = "submit-approval"
    /\ calls[3].ok
    /\ calls[3].signer = <<"external-wallet", "PK1">>
    /\ calls[3].txId = "t2"

\* C33: a purchase whose broadcast wait has fetched a transaction of status
\* failed ends with the transaction-failed error and neither has issued nor
\* goes on to issue the payment confirmation, whatever else the fetched
\* transaction holds.
C33_FailedStatusStopsPurchase ==
    (op = "purchaseProduct" /\ fetched.status = "failed") =>
        /\ pc = "done"
        /\ outcome = "threw"
        /\ error.message = "Transaction failed"
        /\ CallsTo("submit-payment-confirmation") = {}

\* C34: waitForTransactionBroadcast has ended, and so fetches no more, as
\* soon as it has fetched a transaction of status failed, rejected or
\* cancelled that holds no reference in onChain.txId, txId or hash.
C34_BroadcastStopsAtTerminalFailure ==
    (/\ op = "waitForTransactionBroadcast"
     /\ fetched.status \in {"failed", "rejected", "cancelled"}
     /\ fetched.onChain.txId = ""
     /\ fetched.txId = ""
     /\ fetched.hash = "") => pc = "done"

\* The identifiers to be found in the Error a call threw: in its message, in
\* the response text the message quotes and in the transaction it quotes.
ErrorIdentifiers == {error.message, error.body, error.tx.id}

\* C35: the Error of a purchase that threw after its approval was accepted
\* holds the id of the created order and the id of the created transaction.
C35_FailureIdentifiesOrderAndTransaction ==
    (/\ op = "purchaseProduct"
     /\ outcome = "threw"
     /\ \E i \in CallsTo("submit-approval") : calls[i].ok) =>
        /\ order.orderId \in ErrorIdentifiers
        /\ txData.id \in ErrorIdentifiers

\* C36: every invocation of waitForTransaction, waitForTransactionBroadcast,
\* createTransfer and purchaseProduct eventually returns a value or throws,
\* whatever the timeout, the interval and the answers of the remote service.
C36_Terminates ==
    op \in {"waitForTransaction", "waitForTransactionBroadcast", "createTransfer",
            "purchaseProduct"}
        => <>(pc = "done" /\ outcome \in {"returned", "threw"})

\* A purchase whose transaction stayed pending through all polls of the wait.
C36_Witness ==
    /\ op = "purchaseProduct"
    /\ pc = "done"
    /\ error.message = "Timeout waiting for transaction to be broadcast on-chain"
    /\ Cardinality(CallsTo("get-transaction-status")) >= 2
    /\ lastLate = 0

----------------------------------------------------------------------------
(* Properties of the tools and the keystore, under ToolSpec *)

\* The text of each tool's catch block.
FailureTexts ==
    {"Failed to configure wallet", "Failed to get balance", "Failed to send",
     "Failed to get transaction status", "Failed to purchase",
     "Failed to get order status"}

ApiCallThrew == \E i \in DOMAIN toolDone.api : toolDone.api[i].completion = "threw"

GateTexts ==
    {"No wallet found", "Wallet not fully configured"}

ValidationTexts ==
    {"Recipient address is required.", "Amount is required.",
     "Transaction ID is required.", "Missing required fields", "Order ID is required."}

\* C18: balance, send, tx_status, buy and order_status call an api.ts
\* function only for an agent whose wallet exists and has both the smart
\* wallet address and the API key; for any other agent they resolve with a
\* message and call none.
C18_RemoteOnlyWhenConfigured ==
    toolCall.tool \in RemoteTools =>
        /\ toolDone.api # <<>> =>
              /\ WalletExists(wallets, toolCall.agentId)
              /\ isWalletConfigured(wallets, toolCall.agentId)
              /\ Truthy(wallets[toolCall.agentId].smartWalletAddress)
              /\ Truthy(wallets[toolCall.agentId].apiKey)
        /\ ~isWalletConfigured(wallets, toolCall.agentId) =>
              /\ toolDone.api = <<>>
              /\ toolDone.outcome = "resolved"
              /\ toolDone.text \in GateTexts \cup ValidationTexts

C18_Witness ==
    /\ toolCall.tool = "crossmint_send"
    /\ toolCall.to = "R1"
    /\ toolCall.amount = "5"
    /\ toolDone.text = "Wallet not fully configured"
    /\ toolDone.api = <<>>
    /\ nextKey = 2

\* The calls that return the stored wallet record of their agent.
ReturnsWallet(call, done) ==
    \/ call.tool \in {"crossmint_setup", "crossmint_wallet_info"}
    \/ call.tool = "crossmint_configure" /\ done.text = "Wallet configured successfully"
    \/ call.tool = "configureWallet" /\ done.outcome = "returned"

SameIdentity(w1, w2) ==
    /\ w1.address = w2.address
    /\ w1.secretKey = w2.secretKey
    /\ w1.createdAt = w2.createdAt

\* C19: once an agent has a wallet, every call other than deleteWallet for
\* that agent leaves its address, secret key and createdAt as they are, and a
\* call that returns the agent's wallet returns those same values.
C19_IdentityImmutable ==
    [][\A a \in AgentIds :
          (/\ WalletExists(wallets, a)
           /\ toolClock' = toolClock + 1
           /\ ~(toolCall'.tool = "deleteWallet" /\ toolCall'.agentId = a))
             => /\ SameIdentity(wallets'[a], wallets[a])
                /\ (toolCall'.agentId = a /\ ReturnsWallet(toolCall', toolDone'))
                      => SameIdentity(toolDone'.wallet, wallets[a])]_vars

C19_Witness ==
    /\ toolCall.tool = "crossmint_setup"
    /\ toolDone.text = "Wallet already configured"
    /\ toolDone.wallet.address = <<"address", 1>>
    /\ toolDone.wallet.createdAt = 1
    /\ toolClock >= 3

\* C20: configuring an agent that has no wallet fails with the not-found
\* answer, the Error of configureWallet or the message of the tool, and
\* leaves the keystore as it was.
C20_AttachOnMissingFails ==
    [][(/\ toolClock' = toolClock + 1
        /\ toolCall'.tool \in {"configureWallet", "crossmint_configure"}
        /\ ~WalletExists(wallets, toolCall'.agentId))
          => /\ wallets' = wallets
             /\ nextKey' = nextKey
             /\ toolCall'.tool = "configureWallet" =>
                   /\ toolDone'.outcome = "threw"
                   /\ toolDone'.text = "No wallet found for agent"
             /\ (/\ toolCall'.tool = "crossmint_configure"
                 /\ Truthy(toolCall'.walletAddress)
                 /\ Truthy(toolCall'.apiKey)) =>
                   /\ toolDone'.outcome = "resolved"
                   /\ toolDone'.text = "No keypair found"]_vars

C20_Witness ==
    /\ toolCall.tool = "configureWallet"
    /\ toolDone.outcome = "threw"
    /\ ~WalletExists(wallets, toolCall.agentId)
    /\ wallets # EmptyStore

OwnWallet == wallets[toolCall.agentId]

\* C30 as stated: every api.ts call a tool makes for an agent is given that
\* agent's stored API key and that agent's stored smart-wallet address.
C30_EveryRequestAddressesOwnWallet ==
    \A i \in DOMAIN toolDone.api :
        /\ toolDone.api[i].apiKey = OwnWallet.apiKey
        /\ toolDone.api[i].wallet = OwnWallet.smartWalletAddress

\* C30: every api.ts call a tool makes for an agent is given that agent's
\* stored API key; every such call but getOrder, which is given an order id
\* and no wallet, is given that agent's stored smart-wallet address; so a
\* call never holds a key or an address that only another agent has stored.
C30_RequestsUseOwnCredential ==
    \A i \in DOMAIN toolDone.api :
        LET c == toolDone.api[i] IN
        /\ Truthy(OwnWallet.apiKey)
        /\ c.apiKey = OwnWallet.apiKey
        /\ Truthy(OwnWallet.smartWalletAddress)
        /\ IF c.fn = "getOrder" THEN c.wallet = ""
           ELSE c.wallet = OwnWallet.smartWalletAddress
        /\ \A other \in AgentIds \ {toolCall.agentId} :
              /\ (/\ Truthy(wallets[other].apiKey)
                  /\ wallets[other].apiKey # OwnWallet.apiKey) =>
                    c.apiKey # wallets[other].apiKey
              /\ (/\ Truthy(wallets[other].smartWalletAddress)
                  /\ wallets[other].smartWalletAddress # OwnWallet.smartWalletAddress) =>
                    c.wallet # wallets[other].smartWalletAddress

C30_Witness ==
    /\ wallets["main"].apiKey = "apikey1"
    /\ wallets["main"].smartWalletAddress = "W1"
    /\ wallets["agent-2"].apiKey = "apikey2"
    /\ wallets["agent-2"].smartWalletAddress = "W2"
    /\ toolCall.agentId = "agent-2"
    /\ Len(toolDone.api) = 2
    /\ toolDone.api[1].apiKey = "apikey2"
    /\ toolDone.api[2].wallet = "W2"

\* The api.ts calls of the last tool call that fetch a transaction's status.
StatusCalls ==
    {i \in DOMAIN toolDone.api :
        toolDone.api[i].fn \in {"waitForTransaction", "getTransactionStatus"}}

\* C31: crossmint_send calls waitForTransaction exactly when wait is true and
\* createTransfer returned a transaction with an id, and gives it the caller's
\* timeoutMs, 60000 when the caller gave none; with wait false it makes no
\* status call and reports the status createTransfer returned.
C31_SendPollsOnlyOnRequest ==
    toolCall.tool = "crossmint_send" =>
        LET api == toolDone.api IN
        /\ \A i \in StatusCalls :
              /\ toolCall.wait
              /\ i = 2
              /\ api[1].fn = "createTransfer"
              /\ api[1].completion = "returned"
              /\ api[1].id # ""
              /\ api[i].fn = "waitForTransaction"
              /\ api[i].timeoutMs = IF toolCall.timeoutMs = <<>> THEN 60000
                                    ELSE toolCall.timeoutMs[1]
        /\ (/\ toolCall.wait
            /\ api # <<>>
            /\ api[1].completion = "returned"
            /\ api[1].id # "") => StatusCalls = {2}
        /\ (~toolCall.wait /\ api # <<>>) =>
              /\ StatusCalls = {}
              /\ Len(api) = 1
              /\ api[1].completion = "returned" =>
                    /\ toolDone.text = "Transfer"
                    /\ toolDone.transaction = api[1].status

C31_Witness ==
    /\ toolCall.tool = "crossmint_send"
    /\ toolCall.wait
    /\ toolCall.timeoutMs = <<>>
    /\ Len(toolDone.api) = 2
    /\ toolDone.api[1].status = "pending"
    /\ toolDone.api[2].fn = "waitForTransaction"
    /\ toolDone.api[2].timeoutMs = 60000
    /\ toolDone.transaction = "success"

\* C32: once an agent's wallet is configured, no call changes its stored
\* smart-wallet address or API key while the wallet exists, and a
\* crossmint_setup for that agent answers "already configured" with the same
\* local signer address, generating no keypair and giving no delegation URL.
C32_CredentialFixedUntilDeleted ==
    [][\A a \in AgentIds :
          isWalletConfigured(wallets, a) =>
              /\ wallets'[a] # NoWallet =>
                    /\ wallets'[a].smartWalletAddress = wallets[a].smartWalletAddress
                    /\ wallets'[a].apiKey = wallets[a].apiKey
              /\ (/\ toolClock' # toolClock
                  /\ toolCall'.tool = "crossmint_setup"
                  /\ toolCall'.agentId = a) =>
                    /\ toolDone'.text = "Wallet already configured"
                    /\ toolDone'.wallet.address = wallets[a].address
                    /\ nextKey' = nextKey]_vars

----------------------------------------------------------------------------
(* Properties of concurrent keystore writers, under KeystoreSpec *)

\* C21: whenever a writer writes the mapping back, the entry of every other
\* agent is what it was just before, and the writer's own agent has the entry
\* its mutation gives from the current mapping: no write undoes the change of
\* another writer.
C21_WritesSerialized ==
    [][\A w \in Writers :
          (writers[w].pc = "holding" /\ writers'[w].pc = "idle")
             => /\ \A b \in AgentIds \ {writers[w].agentId} : wallets'[b] = wallets[b]
                /\ wallets'[writers[w].agentId] =
                      Mutated(writers[w].kind, wallets, writers[w].agentId,
                              nextKey, toolClock + 1).store[writers[w].agentId]]_vars

C21_Witness ==
    \E w1, w2 \in Writers :
        /\ writers[w1].agentId # writers[w2].agentId
        /\ writers[w1].commits >= 1
        /\ writers[w2].commits >= 1
        /\ writers[w2].waited
        /\ WalletExists(wallets, writers[w1].agentId)
        /\ WalletExists(wallets, writers[w2].agentId)

----------------------------------------------------------------------------
(* Properties of concurrent invocations, under ConcurrentSpec *)

\* The answered requests of invocation i that came before its k-th request.
Earlier(i, k) == {j \in DOMAIN wire[i] : j < k /\ wire[i][j].req.ok}

CreatedTx(i, k) ==
    {j \in Earlier(i, k) :
        wire[i][j].req.ep \in {"create-wallet-transaction", "create-transfer"}}

\* C22: in every interleaving, an invocation submits its approval to the
\* transaction its own create call returned, with a signature over that
\* transaction's challenge; it polls that transaction; it creates the wallet
\* transaction from its own order's payload; and it confirms its own order,
\* with that order's client secret and a reference one of its own polls of
\* its own transaction returned.
C22_InvocationsDoNotInterfere ==
    \A i \in DOMAIN wire : \A k \in DOMAIN wire[i] :
        LET c == wire[i][k].req
            w == wire[i]
        IN /\ c.ep = "submit-approval" =>
                \E j \in CreatedTx(i, k) :
                    /\ w[j].made.txId = c.txId
                    /\ w[j].made.challenge = c.signature.over
                    /\ w[j].req.signer = c.signer
                    /\ w[j].req.wallet = c.wallet
           /\ c.ep = "get-transaction-status" =>
                \E j \in CreatedTx(i, k) : w[j].made.txId = c.txId
           /\ c.ep = "create-wallet-transaction" =>
                \E j \in Earlier(i, k) :
                    /\ w[j].req.ep = "create-order"
                    /\ w[j].made.serialized = c.transaction
           /\ c.ep = "submit-payment-confirmation" =>
                /\ \E j \in Earlier(i, k) :
                      /\ w[j].req.ep = "create-order"
                      /\ w[j].made.orderId = c.orderId
                      /\ w[j].made.clientSecret = c.authorization
                /\ \E j \in Earlier(i, k) :
                      /\ w[j].req.ep = "get-transaction-status"
                      /\ w[j].made.reference = c.paymentTxId
                      /\ \E t \in CreatedTx(i, j) : w[t].made.txId = w[j].req.txId

\* Two purchases of the same caller in flight at once, each past its
\* approval: one is polling its transaction while the other confirms its order.
C22_Witness ==
    /\ runs[1].fn = "purchaseProduct"
    /\ runs[2].fn = "purchaseProduct"
    /\ runs[1].keypair = runs[2].keypair
    /\ runs[1].pc = "confirm"
    /\ runs[2].pc = "loop"
    /\ runs[2].polls = 1
    /\ runs[1].txData.id # runs[2].txData.id
    /\ issued = 4

====
